---- MODULE Spec2Model ----
(***************************************************************************)
(* Model of the community homology engine                                  *)
(* (src/community_homology_engine.hpp): the CommunityGraph, its edge       *)
(* synthesis, homology, boundary and bridge computations, the              *)
(* Mayer-Vietoris engine, persistence, the scheduling optimizer and the    *)
(* analyzer pipeline.                                                      *)
(*                                                                         *)
(* Numbers.  Connection strengths are floats that are sums of multiples    *)
(* of 0.1; they are kept in tenths (2.0 is 20).  Centrality and boundary   *)
(* scores are kept as exact fractions <<numerator, denominator>>.  Within  *)
(* the bounds used here no float comparison of the code falls on a value   *)
(* where rounding could change its outcome.                                *)
(***************************************************************************)
EXTENDS Integers, Sequences, FiniteSets, TLC

VARIABLES
    residents,             \* CommunityGraph::residents
    connections,           \* CommunityGraph::connections
    adj,                   \* CommunityGraph::adj
    adj_weighted,          \* CommunityGraph::adj_weighted
    subcommunity_labels,   \* CommunityGraph::subcommunity_labels
    subcommunity_members,  \* CommunityGraph::subcommunity_members
    build,                 \* how this build's std::sort orders equal elements
    calls,                 \* number of compute_connections runs so far
    out,                   \* what the last call returned
    prev                   \* what the analyze call before the last returned

vars == <<residents, connections, adj, adj_weighted, subcommunity_labels,
          subcommunity_members, build, calls, out, prev>>

(***************************************************************************)
(* Bounds of the model.                                                    *)
(***************************************************************************)
MaxV == 4
MaxE == 3
MaxResidents == 3
MaxCalls == 4
SchedResidents == 5
MaxTopN == 2

(***************************************************************************)
(* Generic helpers.                                                        *)
(***************************************************************************)
Range(s) == {s[i] : i \in DOMAIN s}

Min2(a, b) == IF a <= b THEN a ELSE b

Max2(a, b) == IF a >= b THEN a ELSE b

Abs(a) == IF a < 0 THEN -a ELSE a

\* a < b, a <= b for fractions <<n, d>> with d > 0
FracLess(a, b) == a[1] * b[2] < b[1] * a[2]

FracLeq(a, b) == a[1] * b[2] <= b[1] * a[2]

\* a local variable: e is worked out once and Body is applied to its value
Bind(e, Body(_)) == CHOOSE y \in {Body(x) : x \in {e}} : TRUE

(***************************************************************************)
(* Resident: the input fields of a member and its derived fields.          *)
(* name, email, phone, class_schedule and concerns are read by nothing in  *)
(* the engine and are left out.                                            *)
(***************************************************************************)
Resident(id, p) ==
    [id |-> id,
     room |-> p.room,
     subcommunities |-> p.subcommunities,
     classes |-> p.classes,
     free_blocks |-> p.free_blocks,
     interests |-> p.interests,
     last_rating |-> p.last_rating,
     follow_up_needed |-> p.follow_up_needed,
     centrality |-> <<0, 1>>,
     boundary_score |-> <<0, 1>>,
     is_bridge |-> FALSE,
     component_id |-> -1]

\* a member with no data at all but a room of its own
BareProfile(room) ==
    [room |-> room, subcommunities |-> {}, classes |-> <<>>, free_blocks |-> <<>>,
     interests |-> {}, last_rating |-> 0, follow_up_needed |-> FALSE]

\* The graph object the methods below are called on.
Graph(res, conns, a, aw, labels, members) ==
    [residents |-> res, connections |-> conns, adj |-> a, adj_weighted |-> aw,
     subcommunity_labels |-> labels, subcommunity_members |-> members]

EmptyMap == [x \in {} |-> <<>>]

G == Graph(residents, connections, adj, adj_weighted, subcommunity_labels,
           subcommunity_members)

(***************************************************************************)
(* Union-find with path compression, as the lambda `find` of h0.           *)
(* parent is a sequence; the entry of id x is parent[x + 1].               *)
(***************************************************************************)
RECURSIVE find_root(_, _)
find_root(parent, x) ==
    IF parent[x + 1] = x THEN x ELSE find_root(parent, parent[x + 1])

RECURSIVE find_compress(_, _)
find_compress(parent, x) ==
    IF parent[x + 1] = x
    THEN parent
    ELSE [find_compress(parent, parent[x + 1]) EXCEPT ![x + 1] = find_root(parent, x)]

iota(n) == [i \in 1..n |-> i - 1]

\* the union with the source's own entry overwritten instead of its root's
union_find_step_no_find(parent, c) ==
    [parent EXCEPT ![c.source + 1] = find_root(parent, c.target)]

\* parent[find(c.source)] = find(c.target): the right operand is evaluated first
union_find_step(parent, c) ==
    LET root_t == find_root(parent, c.target)
        p1 == find_compress(parent, c.target)
        root_s == find_root(p1, c.source)
        p2 == find_compress(p1, c.source)
    IN  [p2 EXCEPT ![root_s + 1] = root_t]

RECURSIVE union_all(_, _, _)
union_all(parent, conns, k) ==
    IF k > Len(conns)
    THEN parent
    ELSE union_all(union_find_step(parent, conns[k]), conns, k + 1)

\* CommunityGraph::h0
h0(g) ==
    IF Len(g.residents) = 0
    THEN 0
    ELSE LET n == Len(g.residents)
             parent == union_all(iota(n), g.connections, 1)
         IN  Cardinality({find_root(parent, i) : i \in 0..(n - 1)})

\* |E| - |V|, the components left out
h1_no_components(g) == Len(g.connections) - Len(g.residents)

\* CommunityGraph::h1
h1(g) == Len(g.connections) - Len(g.residents) + h0(g)

(***************************************************************************)
(* TimeBlock                                                               *)
(***************************************************************************)
TimeBlock(day, start_min, end_min) ==
    [day |-> day, start_min |-> start_min, end_min |-> end_min]

\* TimeBlock::overlaps
overlaps(b, other) ==
    IF b.day # other.day
    THEN FALSE
    ELSE ~(b.end_min <= other.start_min \/ b.start_min >= other.end_min)

\* TimeBlock::overlap_minutes, a uint16_t
overlap_minutes(b, other) ==
    IF ~overlaps(b, other)
    THEN 0
    ELSE (Min2(b.end_min, other.end_min) - Max2(b.start_min, other.start_min)) % 65536

(***************************************************************************)
(* Room designators are strings, kept as sequences of characters so that   *)
(* substr and std::stoi can be computed on them.                           *)
(***************************************************************************)
DigitValue(ch) ==
    CASE ch = "0" -> 0 [] ch = "1" -> 1 [] ch = "2" -> 2 [] ch = "3" -> 3
      [] ch = "4" -> 4 [] ch = "5" -> 5 [] ch = "6" -> 6 [] ch = "7" -> 7
      [] ch = "8" -> 8 [] ch = "9" -> 9 [] OTHER -> -1

substr(s, len) == SubSeq(s, 1, Min2(len, Len(s)))

RECURSIVE stoi_digits(_, _, _)
stoi_digits(s, k, acc) ==
    IF k > Len(s) \/ DigitValue(s[k]) < 0
    THEN acc
    ELSE stoi_digits(s, k + 1, 10 * acc + DigitValue(s[k]))

\* std::stoi: leading blanks, an optional sign, then the leading digits;
\* it throws (ok = FALSE) when no digit follows.
stoi(s) ==
    LET blanks == {k \in 1..Len(s) : \A m \in 1..k : s[m] = " "}
        start == Cardinality(blanks) + 1
        signed == start <= Len(s) /\ s[start] \in {"+", "-"}
        first == IF signed THEN start + 1 ELSE start
    IN  IF first > Len(s) \/ DigitValue(s[first]) < 0
        THEN [ok |-> FALSE, value |-> 0]
        ELSE [ok |-> TRUE,
              value |-> (IF signed /\ s[start] = "-" THEN -1 ELSE 1)
                           * stoi_digits(s, first, 0)]

\* CommunityGraph::are_neighbors
are_neighbors(room1, room2) ==
    LET r1 == stoi(substr(room1, 3))
        r2 == stoi(substr(room2, 3))
    IN  IF r1.ok /\ r2.ok THEN Abs(r1.value - r2.value) <= 5 ELSE FALSE

\* CommunityGraph::count_shared_classes
count_shared_classes(r1, r2) ==
    Cardinality({pr \in (DOMAIN r1.classes) \X (DOMAIN r2.classes) :
                    r1.classes[pr[1]] = r2.classes[pr[2]]})

RECURSIVE sum_overlap(_, _, _, _)
sum_overlap(b1s, b2s, i, j) ==
    IF i > Len(b1s)
    THEN 0
    ELSE IF j > Len(b2s)
         THEN sum_overlap(b1s, b2s, i + 1, 1)
         ELSE overlap_minutes(b1s[i], b2s[j]) + sum_overlap(b1s, b2s, i, j + 1)

\* CommunityGraph::compute_schedule_overlap, in whole hours
compute_schedule_overlap(r1, r2) ==
    sum_overlap(r1.free_blocks, r2.free_blocks, 1, 1) \div 60

\* no shared interest is ever counted
count_shared_interests_none(r1, r2) == 0

\* CommunityGraph::count_shared_interests
count_shared_interests(r1, r2) == Cardinality(r1.interests \cap r2.interests)

(***************************************************************************)
(* compute_connections.  pair_signals is the body of the pair loop up to   *)
(* the test that decides whether a connection is added.                    *)
(***************************************************************************)
\* the signals with two unset rooms not taken for the same room
pair_signals_known_rooms(r1, r2) ==
    LET shared_classes == count_shared_classes(r1, r2)
        overlap_hours == compute_schedule_overlap(r1, r2)
        shared_interests == count_shared_interests(r1, r2)
        shared_subs == r1.subcommunities \cap r2.subcommunities
        roommates == r1.room = r2.room /\ r1.room # <<>>
        s1 == IF shared_classes > 0 THEN shared_classes * 20 ELSE 0
        t1 == IF shared_classes > 0 THEN <<"SHARED_CLASS">> ELSE <<>>
        s2 == IF overlap_hours >= 2 THEN Min2(overlap_hours * 2, 20) ELSE 0
        t2 == IF overlap_hours >= 2 THEN <<"SCHEDULE_OVERLAP">> ELSE <<>>
        s3 == IF shared_interests > 0 THEN shared_interests * 15 ELSE 0
        t3 == IF shared_interests > 0 THEN <<"SHARED_INTEREST">> ELSE <<>>
        s4 == IF roommates THEN 50 ELSE 0
        t4 == IF roommates THEN <<"ROOMMATE">> ELSE <<>>
        s5 == IF are_neighbors(r1.room, r2.room) THEN 10 ELSE 0
        t5 == IF are_neighbors(r1.room, r2.room) THEN <<"FLOOR_PROXIMITY">> ELSE <<>>
        s6 == Cardinality(shared_subs) * 5
    IN  [total_strength |-> s1 + s2 + s3 + s4 + s5 + s6,
         types |-> t1 \o t2 \o t3 \o t4 \o t5,
         shared_subs |-> shared_subs]

pair_signals(r1, r2) ==
    LET shared_classes == count_shared_classes(r1, r2)
        overlap_hours == compute_schedule_overlap(r1, r2)
        shared_interests == count_shared_interests(r1, r2)
        shared_subs == r1.subcommunities \cap r2.subcommunities
        s1 == IF shared_classes > 0 THEN shared_classes * 20 ELSE 0
        t1 == IF shared_classes > 0 THEN <<"SHARED_CLASS">> ELSE <<>>
        s2 == IF overlap_hours >= 2 THEN Min2(overlap_hours * 2, 20) ELSE 0
        t2 == IF overlap_hours >= 2 THEN <<"SCHEDULE_OVERLAP">> ELSE <<>>
        s3 == IF shared_interests > 0 THEN shared_interests * 15 ELSE 0
        t3 == IF shared_interests > 0 THEN <<"SHARED_INTEREST">> ELSE <<>>
        s4 == IF r1.room = r2.room THEN 50 ELSE 0
        t4 == IF r1.room = r2.room THEN <<"ROOMMATE">> ELSE <<>>
        s5 == IF are_neighbors(r1.room, r2.room) THEN 10 ELSE 0
        t5 == IF are_neighbors(r1.room, r2.room) THEN <<"FLOOR_PROXIMITY">> ELSE <<>>
        s6 == Cardinality(shared_subs) * 5
    IN  [total_strength |-> s1 + s2 + s3 + s4 + s5 + s6,
         types |-> t1 \o t2 \o t3 \o t4 \o t5,
         shared_subs |-> shared_subs]

\* the default min_strength, 0.5f
DefaultMinStrength == 5

\* m[key].push_back(value) on an unordered_map of vectors
push_back(m, key, value) ==
    IF key \in DOMAIN m
    THEN [m EXCEPT ![key] = Append(@, value)]
    ELSE [k \in (DOMAIN m) \cup {key} |-> IF k = key THEN <<value>> ELSE m[k]]

\* "Add connection if strong enough"
add_connection(g, min_strength, r1, r2) ==
    LET sig == pair_signals(r1, r2)
        c == [id |-> Len(g.connections),
              source |-> r1.id,
              target |-> r2.id,
              type |-> sig.types[1],
              strength |-> sig.total_strength,
              is_bridge_edge |->
                  \/ Cardinality(sig.shared_subs) < Cardinality(r1.subcommunities)
                  \/ Cardinality(sig.shared_subs) < Cardinality(r2.subcommunities),
              touches_subcommunities |-> sig.shared_subs]
        strong == sig.total_strength >= 20
    IN  IF sig.total_strength >= min_strength /\ sig.types # <<>>
        THEN [g EXCEPT
                !.connections = Append(@, c),
                !.adj = push_back(push_back(@, r1.id, r2.id), r2.id, r1.id),
                !.adj_weighted =
                    IF strong
                    THEN push_back(push_back(@, r1.id, r2.id), r2.id, r1.id)
                    ELSE @]
        ELSE g

\* the loops over i < j, continued from the pair of positions (i, j)
RECURSIVE connect_pairs(_, _, _, _)
connect_pairs(g, min_strength, i, j) ==
    IF i > Len(g.residents)
    THEN g
    ELSE IF j > Len(g.residents)
         THEN connect_pairs(g, min_strength, i + 1, i + 2)
         ELSE connect_pairs(add_connection(g, min_strength, g.residents[i], g.residents[j]),
                            min_strength, i, j + 1)

\* CommunityGraph::compute_connections
compute_connections(g, min_strength) ==
    connect_pairs([g EXCEPT !.connections = <<>>, !.adj = EmptyMap], min_strength, 1, 2)

(***************************************************************************)
(* find_cycles: the depth-first search over adj.  st holds the captured    *)
(* visited set, parent and depth maps and the cycles found so far.         *)
(***************************************************************************)
\* (uint32_t)-1, the parent given to a root; no member has this id
UINT32_MAX == -1

map_put(m, key, value) ==
    [k \in (DOMAIN m) \cup {key} |-> IF k = key THEN value ELSE m[k]]

\* the two ends of the back edge alone, the walk along parent left out
extract_cycle_ends(parent, curr, u) == <<curr, u>>

\* the walk along parent from v up to the ancestor u
RECURSIVE extract_cycle(_, _, _)
extract_cycle(parent, curr, u) ==
    IF curr = u THEN <<u>> ELSE <<curr>> \o extract_cycle(parent, parent[curr], u)

\* the visit of v alone, the neighbours left unvisited
dfs_no_descent(g, st, v, p, d) ==
    [st EXCEPT !.visited = @ \cup {v},
               !.parent = map_put(@, v, p),
               !.depth = map_put(@, v, d)]

RECURSIVE dfs(_, _, _, _, _)
RECURSIVE dfs_neighbours(_, _, _, _, _)
dfs(g, st, v, p, d) ==
    LET st1 == [st EXCEPT !.visited = @ \cup {v},
                          !.parent = map_put(@, v, p),
                          !.depth = map_put(@, v, d)]
    IN  IF v \notin DOMAIN g.adj THEN st1 ELSE dfs_neighbours(g, st1, v, p, 1)

dfs_neighbours(g, st, v, p, k) ==
    IF k > Len(g.adj[v])
    THEN st
    ELSE LET u == g.adj[v][k]
         IN  IF u = p
             THEN dfs_neighbours(g, st, v, p, k + 1)
             ELSE IF u \in st.visited
                  THEN IF st.depth[u] < st.depth[v]
                       THEN dfs_neighbours(
                                g,
                                [st EXCEPT !.cycles = Append(@, extract_cycle(st.parent, v, u))],
                                v, p, k + 1)
                       ELSE dfs_neighbours(g, st, v, p, k + 1)
                  ELSE dfs_neighbours(g, dfs(g, st, u, v, st.depth[v] + 1), v, p, k + 1)

RECURSIVE dfs_roots(_, _, _)
dfs_roots(g, st, i) ==
    IF i > Len(g.residents)
    THEN st
    ELSE IF g.residents[i].id \in st.visited
         THEN dfs_roots(g, st, i + 1)
         ELSE dfs_roots(g, dfs(g, st, g.residents[i].id, UINT32_MAX, 0), i + 1)

\* CommunityGraph::find_cycles
find_cycles(g) ==
    dfs_roots(g, [visited |-> {}, parent |-> EmptyMap, depth |-> EmptyMap, cycles |-> <<>>],
              1).cycles

(***************************************************************************)
(* Boundary scores and bridges.                                            *)
(***************************************************************************)
degree(g, id) ==
    Cardinality({k \in DOMAIN g.connections : g.connections[k].source = id})
      + Cardinality({k \in DOMAIN g.connections : g.connections[k].target = id})

max_degree(g) ==
    LET ids == {g.connections[k].source : k \in DOMAIN g.connections}
                 \cup {g.connections[k].target : k \in DOMAIN g.connections}
    IN  IF ids = {}
        THEN 0
        ELSE CHOOSE d \in {degree(g, id) : id \in ids} :
                 \A id \in ids : degree(g, id) <= d

\* the scores with the degree divided by the number of members
compute_boundary_scores_by_size(g) ==
    IF Len(g.residents) = 0
    THEN g
    ELSE [g EXCEPT !.residents =
             [i \in DOMAIN g.residents |->
                 LET d == degree(g, g.residents[i].id)
                     n == Len(g.residents)
                 IN  [g.residents[i] EXCEPT
                        !.centrality = <<d, n>>,
                        !.boundary_score = <<n - d, n>>]]]

\* CommunityGraph::compute_boundary_scores
compute_boundary_scores(g) ==
    IF Len(g.residents) = 0
    THEN g
    ELSE LET md == max_degree(g)
         IN  [g EXCEPT !.residents =
                 [i \in DOMAIN g.residents |->
                     LET d == degree(g, g.residents[i].id)
                     IN  [g.residents[i] EXCEPT
                            !.centrality = IF md > 0 THEN <<d, md>> ELSE <<0, 1>>,
                            !.boundary_score = IF md > 0 THEN <<md - d, md>> ELSE <<1, 1>>]]]

\* the ids of the residents of a list that satisfy Test, in list order
RECURSIVE ids_where(_, _, _)
ids_where(res, Test(_), i) ==
    IF i > Len(res)
    THEN <<>>
    ELSE (IF Test(res[i]) THEN <<res[i].id>> ELSE <<>>) \o ids_where(res, Test, i + 1)

\* CommunityGraph::get_boundary_residents
get_boundary_residents(g, threshold) ==
    LET at_boundary(r) == FracLeq(threshold, r.boundary_score)
    IN  ids_where(g.residents, at_boundary, 1)

\* the subgroups of the direct neighbours of r
connected_subs(g, r) ==
    IF r.id \in DOMAIN g.adj
    THEN UNION {g.residents[g.adj[r.id][k] + 1].subcommunities : k \in DOMAIN g.adj[r.id]}
    ELSE {}

\* compute_bridges without the test on the member's own subgroups
compute_bridges_any_member(g) ==
    [g EXCEPT !.residents =
        [i \in DOMAIN g.residents |->
            [g.residents[i] EXCEPT
               !.is_bridge = Cardinality(connected_subs(g, g.residents[i])) >= 2]]]

\* compute_bridges asking for more than two subgroups among the neighbours
compute_bridges_over_two(g) ==
    [g EXCEPT !.residents =
        [i \in DOMAIN g.residents |->
            [g.residents[i] EXCEPT
               !.is_bridge =
                   IF Cardinality(g.residents[i].subcommunities) < 2
                   THEN FALSE
                   ELSE Cardinality(connected_subs(g, g.residents[i])) > 2]]]

\* CommunityGraph::compute_bridges
compute_bridges(g) ==
    [g EXCEPT !.residents =
        [i \in DOMAIN g.residents |->
            [g.residents[i] EXCEPT
               !.is_bridge =
                   IF Cardinality(g.residents[i].subcommunities) < 2
                   THEN FALSE
                   ELSE Cardinality(connected_subs(g, g.residents[i])) >= 2]]]

\* CommunityGraph::get_bridge_residents
get_bridge_residents(g) ==
    LET flagged(r) == r.is_bridge
    IN  ids_where(g.residents, flagged, 1)

(***************************************************************************)
(* Mayer-Vietoris engine.                                                  *)
(***************************************************************************)
\* the elements of a set of numbers in increasing order (std::set iteration)
RECURSIVE ascending(_)
ascending(S) ==
    IF S = {}
    THEN <<>>
    ELSE LET least == CHOOSE x \in S : \A y \in S : x <= y
         IN  <<least>> \o ascending(S \ {least})

\* id_map after the loop that fills it: the last new id given to old_id
last_index(olds, old_id) ==
    (CHOOSE k \in DOMAIN olds : olds[k] = old_id /\ \A m \in DOMAIN olds : olds[m] = old_id => m <= k)
        - 1

\* the residents olds names, renumbered 0, 1, ..., and the connections of g
\* between them, renumbered alike
induced(g, olds) ==
    LET member_ids == Range(olds)
        inside(c) == c.source \in member_ids /\ c.target \in member_ids
        kept == SelectSeq(g.connections, inside)
    IN  [residents |-> [k \in DOMAIN olds |-> [g.residents[olds[k] + 1] EXCEPT !.id = k - 1]],
         connections |->
             [k \in DOMAIN kept |->
                 [kept[k] EXCEPT !.id = k - 1,
                                 !.source = last_index(olds, kept[k].source),
                                 !.target = last_index(olds, kept[k].target)]]]

\* the extraction that falls back to the whole graph for a label nobody has
extract_subcommunity_whole(g, sub) ==
    IF sub \notin DOMAIN g.subcommunity_members
    THEN Graph(g.residents, g.connections, EmptyMap, EmptyMap, {}, EmptyMap)
    ELSE LET s == induced(g, g.subcommunity_members[sub])
         IN  Graph(s.residents, s.connections, EmptyMap, EmptyMap, {}, EmptyMap)

\* MayerVietorisEngine::extract_subcommunity
extract_subcommunity(g, sub) ==
    IF sub \notin DOMAIN g.subcommunity_members
    THEN Graph(<<>>, <<>>, EmptyMap, EmptyMap, {}, EmptyMap)
    ELSE LET s == induced(g, g.subcommunity_members[sub])
         IN  Graph(s.residents, s.connections, EmptyMap, EmptyMap, {}, EmptyMap)

\* IntersectionGraph::compute
intersection_compute(g, subA, subB) ==
    LET in_A == IF subA \in DOMAIN g.subcommunity_members
                THEN Range(g.subcommunity_members[subA]) ELSE {}
        in_B == IF subB \in DOMAIN g.subcommunity_members
                THEN Range(g.subcommunity_members[subB]) ELSE {}
    IN  induced(g, ascending(in_A \cap in_B))

RECURSIVE intersection_union_all(_, _, _)
intersection_union_all(parent, conns, k) ==
    IF k > Len(conns)
    THEN parent
    ELSE intersection_union_all(
             IF conns[k].source < Len(parent) /\ conns[k].target < Len(parent)
             THEN union_find_step(parent, conns[k])
             ELSE parent,
             conns, k + 1)

\* IntersectionGraph::h0
intersection_h0(I) ==
    IF Len(I.residents) = 0
    THEN 0
    ELSE LET n == Len(I.residents)
             parent == intersection_union_all(iota(n), I.connections, 1)
         IN  Cardinality({find_root(parent, i) : i \in 0..(n - 1)})

\* IntersectionGraph::h1
intersection_h1(I) == Len(I.connections) - Len(I.residents) + intersection_h0(I)

\* the estimate taken against the components of A alone
compute_kernel_i0_of_A(A, B, I) ==
    IF intersection_h0(I) <= 1 THEN 0 ELSE Max2(0, intersection_h0(I) - h0(A))

\* MayerVietorisEngine::compute_kernel_i0
compute_kernel_i0(A, B, I) ==
    LET components_intersection == intersection_h0(I)
    IN  IF components_intersection <= 1
        THEN 0
        ELSE Max2(0, components_intersection - Max2(h0(A), h0(B)))

\* MayerVietorisEngine::compute_health_score; r is the Result as it stands
\* when the score is computed
compute_health_score(g, r) ==
    LET component_penalty == (h0(g) - 1) * 15
        hole_penalty == Max2(0, (r.h1_union - 2) * 5)
        isolation_penalty == Len(r.isolation_risk) * 3
        bridge_bonus == Len(r.bridge_residents) * 2
        score == 100 - component_penalty - hole_penalty - isolation_penalty + bridge_bonus
    IN  Max2(0, Min2(100, score))

shares_class(a, b) == \E k \in DOMAIN a.classes : a.classes[k] \in Range(b.classes)

shares_interest(a, b) == a.interests \cap b.interests # {}

\* "Priority 1": the first resident in list order that is not the isolated
\* one, has boundary_score <= 0.5 and shares a class or an interest
RECURSIVE isolated_intros(_, _, _)
isolated_intros(g, isolated, k) ==
    IF k > Len(isolated)
    THEN <<>>
    ELSE LET iso_id == isolated[k]
             iso == g.residents[iso_id + 1]
             fits(i) == /\ g.residents[i].id # iso_id
                        /\ ~FracLess(<<1, 2>>, g.residents[i].boundary_score)
                        /\ shares_class(iso, g.residents[i]) \/ shares_interest(iso, g.residents[i])
             found == {i \in DOMAIN g.residents : fits(i)}
             first == CHOOSE i \in found : \A m \in found : i <= m
         IN  (IF found = {} THEN <<>> ELSE <<<<iso_id, g.residents[first].id>>>>)
                 \o isolated_intros(g, isolated, k + 1)

\* "Priority 2": for a hole of 3 or more members, the first resident outside
\* it sharing a class with 2 or more of its members, paired with the last such
RECURSIVE hole_intros(_, _, _)
hole_intros(g, holes, k) ==
    IF k > Len(holes)
    THEN <<>>
    ELSE LET hole == holes[k]
             touched(i) == {m \in DOMAIN hole :
                               shares_class(g.residents[i], g.residents[hole[m] + 1])}
             fits(i) == /\ g.residents[i].id \notin Range(hole)
                        /\ Cardinality(touched(i)) >= 2
             found == {i \in DOMAIN g.residents : fits(i)}
             first == CHOOSE i \in found : \A m \in found : i <= m
             last == CHOOSE m \in touched(first) : \A m2 \in touched(first) : m2 <= m
         IN  (IF Len(hole) < 3 \/ found = {}
              THEN <<>>
              ELSE <<<<g.residents[first].id, hole[last]>>>>)
                 \o hole_intros(g, holes, k + 1)

\* MayerVietorisEngine::compute_introductions
compute_introductions(g, holes, isolated) ==
    isolated_intros(g, isolated, 1) \o hole_intros(g, holes, 1)

\* MayerVietorisEngine::build_diagnosis: the values the text is made of
build_diagnosis(r, g, subA, subB, I) ==
    <<subA, r.h1_A, r.h0_A, subB, r.h1_B, r.h0_B, Len(I.residents), r.h1_intersection,
      r.h0_intersection, r.kernel_i0, r.cokernel_i1, r.h1_union,
      IF r.h1_union > 0 THEN Len(r.suggested_introductions) ELSE -1,
      IF Len(r.isolation_risk) > 0 THEN Len(r.isolation_risk) ELSE -1>>

IsolationThreshold == <<7, 10>>

\* a Result before anything is assigned: the vectors are empty; the numbers
\* hold whatever the memory held (junk) until they are assigned
NewResult(junk) ==
    [h1_A |-> junk, h1_B |-> junk, h1_intersection |-> junk,
     h0_A |-> junk, h0_B |-> junk, h0_intersection |-> junk, h1_union |-> junk,
     kernel_i0 |-> junk, cokernel_i1 |-> junk,
     is_cohesive |-> FALSE, community_health |-> junk,
     isolation_risk |-> <<>>, bridge_residents |-> <<>>, holes |-> <<>>,
     suggested_introductions |-> <<>>, diagnosis |-> <<>>]

\* MayerVietorisEngine::compute
mv_compute(g, subA, subB) ==
    LET G_A == extract_subcommunity(g, subA)
        G_B == extract_subcommunity(g, subB)
        I == intersection_compute(g, subA, subB)
        betti == [NewResult(0) EXCEPT
                    !.h1_A = h1(G_A),
                    !.h1_B = h1(G_B),
                    !.h1_intersection = intersection_h1(I),
                    !.h0_A = h0(G_A),
                    !.h0_B = h0(G_B),
                    !.h0_intersection = intersection_h0(I),
                    !.kernel_i0 = compute_kernel_i0(G_A, G_B, I),
                    !.cokernel_i1 = h1(G_A) + h1(G_B)
                                       - Min2(intersection_h1(I), h1(G_A) + h1(G_B)),
                    !.h1_union = h1(g),
                    !.is_cohesive = h1(g) <= 1]
        \* the statements that follow, each on the Result r as it stands
        score(r) == [r EXCEPT !.community_health = compute_health_score(g, r)]
        act(r) == [r EXCEPT !.isolation_risk = get_boundary_residents(g, IsolationThreshold),
                            !.bridge_residents = get_bridge_residents(g),
                            !.holes = find_cycles(g)]
        introduce(r) == [r EXCEPT !.suggested_introductions =
                                      compute_introductions(g, r.holes, r.isolation_risk)]
        diagnose(r) == [r EXCEPT !.diagnosis = build_diagnosis(r, g, subA, subB, I)]
    IN  Bind(Bind(Bind(Bind(betti, score), act), introduce), diagnose)

(***************************************************************************)
(* float.  compute_full works the health score out in float, and what it   *)
(* returns depends on where the build rounds.  Every value of that         *)
(* expression is >= 0, so no sign is kept.  A float is <<m, k>>, the value *)
(* m / 2^k with m < 2^24; an unrounded value is <<x2, x1, x0>>, standing   *)
(* for x2 + x1 / 2^24 + x0 / 2^48 with x1, x0 < 2^24.                      *)
(***************************************************************************)
Pow2(k) == 2^k

RECURSIVE bit_length(_)
bit_length(n) == IF n = 0 THEN 0 ELSE 1 + bit_length(n \div 2)

\* the value of the float f, for -7 <= k <= 48
exact(f) ==
    LET m == f[1]
        k == f[2]
    IN  IF k <= 0
        THEN <<m * Pow2(-k), 0, 0>>
        ELSE IF k <= 24
             THEN <<m \div Pow2(k), (m % Pow2(k)) * Pow2(24 - k), 0>>
             ELSE <<0, m \div Pow2(k - 24), (m % Pow2(k - 24)) * Pow2(48 - k)>>

exact_add(x, y) ==
    LET s0 == x[3] + y[3]
        s1 == x[2] + y[2] + s0 \div Pow2(24)
    IN  <<x[1] + y[1] + s1 \div Pow2(24), s1 % Pow2(24), s0 % Pow2(24)>>

\* x - y for x >= y
exact_sub(x, y) ==
    LET d0 == x[3] - y[3]
        b0 == IF d0 < 0 THEN 1 ELSE 0
        d1 == x[2] - y[2] - b0
        b1 == IF d1 < 0 THEN 1 ELSE 0
    IN  <<x[1] - y[1] - b1, d1 + b1 * Pow2(24), d0 + b0 * Pow2(24)>>

exact_leq(x, y) ==
    \/ x[1] < y[1]
    \/ x[1] = y[1] /\ x[2] < y[2]
    \/ x[1] = y[1] /\ x[2] = y[2] /\ x[3] <= y[3]

\* the product of two floats, unrounded
exact_product(a, b) ==
    LET a1 == a[1] \div 4096
        a0 == a[1] % 4096
        b1 == b[1] \div 4096
        b0 == b[1] % 4096
        mid == a1 * b0 + a0 * b1
        low == (mid % 4096) * 4096 + a0 * b0
        hi == a1 * b1 + mid \div 4096 + low \div Pow2(24)
        k == a[2] + b[2]
    IN  exact_add(exact(<<hi, k - 24>>), exact(<<low % Pow2(24), k>>))

\* a mantissa that rounding has carried to 2^24
normalized(m, k) == IF m = Pow2(24) THEN <<Pow2(23), k - 1>> ELSE <<m, k>>

\* round to nearest, ties to even: the float next to an unrounded value
float_round(x) ==
    IF x[1] > 0
    THEN LET bl == bit_length(x[1])
             m == x[1] * Pow2(24 - bl) + x[2] \div Pow2(bl)
             r == x[2] % Pow2(bl)
             half == Pow2(bl - 1)
             up == r > half \/ (r = half /\ (x[3] > 0 \/ m % 2 = 1))
         IN  normalized(m + (IF up THEN 1 ELSE 0), 24 - bl)
    ELSE IF x[2] > 0
         THEN LET bl == bit_length(x[2])
                  m == x[2] * Pow2(24 - bl) + x[3] \div Pow2(bl)
                  r == x[3] % Pow2(bl)
                  half == Pow2(bl - 1)
                  up == r > half \/ (r = half /\ m % 2 = 1)
              IN  normalized(m + (IF up THEN 1 ELSE 0), 48 - bl)
         ELSE IF x[3] > 0 THEN <<x[3], 48>> ELSE <<0, 0>>

\* static_cast<float>(b) / n for 0 <= b <= n, n > 0
RECURSIVE quotient_scale(_, _, _)
quotient_scale(b, n, k) ==
    IF b * Pow2(k) >= Pow2(23) * n THEN k ELSE quotient_scale(b, n, k + 1)

float_div(b, n) ==
    IF b = 0
    THEN <<0, 0>>
    ELSE LET k == quotient_scale(b, n, 0)
             q == (b * Pow2(k)) \div n
             r == (b * Pow2(k)) % n
             up == 2 * r > n \/ (2 * r = n /\ q % 2 = 1)
         IN  normalized(q + (IF up THEN 1 ELSE 0), k)

float_mul(a, b) == float_round(exact_product(a, b))

float_add(a, b) == float_round(exact_add(exact(a), exact(b)))

\* a * b + c rounded once, as a fused multiply-add instruction does
fmaf(a, b, c) == float_round(exact_add(exact_product(a, b), exact(c)))

\* 0.3f and 0.4f
Float0_3 == <<10066330, 25>>

Float0_4 == <<13421773, 25>>

\* A build may contract a product and the sum it feeds into one fused
\* operation (the implementation's choice; g++ does it wherever the target
\* has the instruction).  "contracted" is such a build.
FloatBuilds == {"stable", "contracted"}

\* std::max(0.0f, 100.0f - (static_cast<float>(boundary) / n) * 100.0f);
\* for n = 0 the quotient is a NaN, and std::max(0.0f, NaN) is 0
isolation_score(boundary, n, fp) ==
    IF n = 0
    THEN <<0, 0>>
    ELSE LET ratio == float_div(boundary, n)
             hundred == <<100, 0>>
         IN  IF fp = "contracted"
             THEN float_round(exact_sub(exact(hundred), exact_product(ratio, hundred)))
             ELSE float_round(exact_sub(exact(hundred), exact(float_mul(ratio, hundred))))

\* connectivity_score * 0.3f + cohesion_score * 0.3f + isolation_score * 0.4f
weighted_health(connectivity_score, cohesion_score, isolation, fp) ==
    LET c1 == <<connectivity_score, 0>>
        c2 == <<cohesion_score, 0>>
    IN  IF fp = "contracted"
        THEN fmaf(isolation, Float0_4, fmaf(c1, Float0_3, float_mul(c2, Float0_3)))
        ELSE float_add(float_add(float_mul(c1, Float0_3), float_mul(c2, Float0_3)),
                       float_mul(isolation, Float0_4))

\* the tenths "<< std::fixed << std::setprecision(1)" prints for an exact
\* value x: the nearest, and the even one of two equally near
to_tenths(x) ==
    LET t0 == x[3] * 10
        t1 == x[2] * 10 + t0 \div Pow2(24)
        whole == x[1] * 10 + t1 \div Pow2(24)
        f1 == t1 % Pow2(24)
        f0 == t0 % Pow2(24)
        up == f1 > Pow2(23) \/ (f1 = Pow2(23) /\ (f0 > 0 \/ whole % 2 = 1))
    IN  whole + (IF up THEN 1 ELSE 0)

\* MayerVietorisEngine::compute_full: the graph it leaves and the Result.
\* community_health is kept as the exact value of the float returned.
compute_full(g0, junk, fp) ==
    LET body(g) ==
            LET n == Len(g.residents)
                boundary == get_boundary_residents(g, IsolationThreshold)
                connectivity_score == Max2(0, 100 - (h0(g) - 1) * 20)
                cohesion_score == Max2(0, 100 - h1(g) * 5)
                with_health(health) ==
                    LET introduce(r1) ==
                            [r1 EXCEPT
                               !.suggested_introductions =
                                   compute_introductions(g, r1.holes, r1.isolation_risk),
                               !.diagnosis =
                                   <<n, Len(g.connections), h0(g), r1.h1_union, Len(boundary),
                                     Len(r1.bridge_residents), to_tenths(health)>>]
                    IN  Bind([NewResult(junk) EXCEPT
                                !.h1_union = h1(g),
                                !.h0_A = h0(g),
                                !.is_cohesive = h1(g) <= n \div 10,
                                !.community_health = health,
                                !.isolation_risk = boundary,
                                !.bridge_residents = get_bridge_residents(g),
                                !.holes = find_cycles(g)],
                             introduce)
            IN  [g |-> g,
                 r |-> Bind(exact(weighted_health(
                                connectivity_score, cohesion_score,
                                isolation_score(Len(boundary), n, fp), fp)),
                            with_health)]
    IN  Bind(compute_bridges(compute_boundary_scores(
                 compute_connections(g0, DefaultMinStrength))),
             body)

(***************************************************************************)
(* std::sort with a comparator "a.key > b.key".  The order it leaves       *)
(* between elements of equal key is unspecified; a build orders them in    *)
(* its own way, here either as they stood ("stable") or the other way      *)
(* round ("reversed"), the same way on every call.                         *)
(***************************************************************************)
Builds == {"stable", "reversed"}

std_sort(s, key(_), ties) ==
    LET before(i, j) ==
            \/ key(s[i]) > key(s[j])
            \/ key(s[i]) = key(s[j]) /\ IF ties = "stable" THEN i < j ELSE i > j
        rank(i) == Cardinality({j \in DOMAIN s : before(j, i)})
    IN  [k \in DOMAIN s |-> s[CHOOSE i \in DOMAIN s : rank(i) = k - 1]]

(***************************************************************************)
(* PersistentHomology::compute.  birth_time is filled with 0 and never     *)
(* written again, so every birth is 0.                                     *)
(***************************************************************************)
RECURSIVE filtration(_, _, _, _, _, _)
filtration(n, sorted, max_conn_strength, parent, barcodes, k) ==
    IF k > Len(sorted)
    THEN barcodes
    ELSE LET c == sorted[k]
             root_s == find_root(parent, c.source)
             p1 == find_compress(parent, c.source)
             root_t == find_root(p1, c.target)
             p2 == find_compress(p1, c.target)
             dying == {i \in 0..(n - 1) : find_root(p2, i) = root_t}
             b == [dimension |-> 0,
                   birth |-> 0,
                   death |-> max_conn_strength - c.strength,
                   residents |-> ascending(dying)]
         IN  IF root_s # root_t
             THEN filtration(n, sorted, max_conn_strength,
                             [p2 EXCEPT ![root_t + 1] = root_s],
                             IF Cardinality(dying) > 1 THEN Append(barcodes, b) ELSE barcodes,
                             k + 1)
             ELSE filtration(n, sorted, max_conn_strength, p2, barcodes, k + 1)

persistence(b) == b.death - b.birth

persistent_homology(g, ties) ==
    LET strength(c) == c.strength
        sorted == std_sort(g.connections, strength, ties)
        max_conn_strength == IF Len(sorted) = 0 THEN 10 ELSE sorted[1].strength
        barcodes == filtration(Len(g.residents), sorted, max_conn_strength,
                               iota(Len(g.residents)), <<>>, 1)
        \* persistence_threshold = 0.3 * max; stable above 2 * threshold,
        \* fragile below 0.5 * threshold
        stable(b) == 10 * persistence(b) > 6 * max_conn_strength
        fragile(b) == ~stable(b) /\ 100 * persistence(b) < 15 * max_conn_strength
        groups(bs) == [k \in DOMAIN bs |-> bs[k].residents]
    IN  [barcodes |-> barcodes,
         stable_groups |-> groups(SelectSeq(barcodes, stable)),
         fragile_groups |-> groups(SelectSeq(barcodes, fragile)),
         emerging_groups |-> <<>>]

(***************************************************************************)
(* SchedulingOptimizer::find_optimal_event_times.                          *)
(***************************************************************************)
DaysPerWeek == 7

FirstHour == 8

EndHour == 22

MinAttendance == 5

DefaultTopN == 5

hour_slot(day, hour) == TimeBlock(day, hour * 60, (hour + 1) * 60)

\* the candidate slots in the order of the two loops
candidate_slots ==
    [k \in 1..(DaysPerWeek * (EndHour - FirstHour)) |->
        hour_slot((k - 1) \div (EndHour - FirstHour),
                  FirstHour + ((k - 1) % (EndHour - FirstHour)))]

is_free(r, slot) == \E k \in DOMAIN r.free_blocks : overlaps(r.free_blocks[k], slot)

\* one TimeSlotScore; topology_score is in tenths (2.0 per available member
\* with boundary_score > 0.7, 1.5 per available bridge)
slot_score(g, slot) ==
    LET free(r) == is_free(r, slot)
        available == ids_where(g.residents, free, 1)
        isolated == {k \in DOMAIN available :
                        FracLess(IsolationThreshold, g.residents[available[k] + 1].boundary_score)}
        bridges == {k \in DOMAIN available : g.residents[available[k] + 1].is_bridge}
    IN  [slot |-> slot,
         available_count |-> Len(available),
         community_coverage |-> <<Len(available), Len(g.residents)>>,
         topology_score |-> 20 * Cardinality(isolated) + 15 * Cardinality(bridges),
         available_residents |-> available]

\* community_coverage * 100 + topology_score, times 10 * |residents|
combined_score(sc) ==
    1000 * sc.community_coverage[1] + sc.community_coverage[2] * sc.topology_score

\* the ranking returned whole, without the cut to top_n
find_optimal_event_times_no_resize(g, top_n, ties) ==
    LET all == [k \in DOMAIN candidate_slots |-> slot_score(g, candidate_slots[k])]
        attended(sc) == ~(sc.available_count < MinAttendance)
        rank(scores) == std_sort(scores, combined_score, ties)
    IN  Bind(SelectSeq(all, attended), rank)

find_optimal_event_times(g, top_n, ties) ==
    LET all == [k \in DOMAIN candidate_slots |-> slot_score(g, candidate_slots[k])]
        attended(sc) == ~(sc.available_count < MinAttendance)
        rank(scores) == std_sort(scores, combined_score, ties)
        resize(scores) == IF Len(scores) > top_n THEN SubSeq(scores, 1, top_n) ELSE scores
    IN  Bind(Bind(SelectSeq(all, attended), rank), resize)

(***************************************************************************)
(* CommunityAnalyzer.                                                      *)
(***************************************************************************)
in_some_group(groups, id) == \E k \in DOMAIN groups : id \in Range(groups[k])

\* the score with the rating test "last_rating <= 2" alone
priority_of_unrated_low(r, homology, pers) ==
    50 + (IF r.id \in Range(homology.isolation_risk) THEN 30 ELSE 0)
       + (IF in_some_group(pers.fragile_groups, r.id) THEN 20 ELSE 0)
       + (IF r.last_rating <= 2 THEN 25 ELSE 0)
       + (IF r.follow_up_needed THEN 15 ELSE 0)
       + (IF r.id \in Range(homology.bridge_residents) THEN 5 ELSE 0)
       - (IF in_some_group(pers.stable_groups, r.id) THEN 10 ELSE 0)

\* the body of the loop of compute_priority_order
priority_of(r, homology, pers) ==
    50 + (IF r.id \in Range(homology.isolation_risk) THEN 30 ELSE 0)
       + (IF in_some_group(pers.fragile_groups, r.id) THEN 20 ELSE 0)
       + (IF r.last_rating > 0 /\ r.last_rating <= 2 THEN 25 ELSE 0)
       + (IF r.follow_up_needed THEN 15 ELSE 0)
       + (IF r.id \in Range(homology.bridge_residents) THEN 5 ELSE 0)
       - (IF in_some_group(pers.stable_groups, r.id) THEN 10 ELSE 0)

\* CommunityAnalyzer::compute_priority_order
compute_priority_order(g, homology, pers, ties) ==
    LET priorities == [i \in DOMAIN g.residents |->
                          <<g.residents[i].id, priority_of(g.residents[i], homology, pers)>>]
        second(pr) == pr[2]
    IN  std_sort(priorities, second, ties)

\* CommunityAnalyzer::analyze: the graph it leaves and the CommunityAnalysis
analyze(g0, junk, ties) ==
    LET report(full) ==
            LET prioritize(pers) ==
                    [g |-> full.g,
                     result |->
                        [homology |-> full.r,
                         persistence |-> pers,
                         optimal_event_times |->
                             find_optimal_event_times(full.g, DefaultTopN, ties),
                         prioritized_checkins |->
                             compute_priority_order(full.g, full.r, pers, ties),
                         health_score |-> full.r.community_health,
                         isolation_count |-> Len(full.r.isolation_risk),
                         bridge_count |-> Len(full.r.bridge_residents),
                         hole_count |-> Len(full.r.holes)]]
            IN  Bind(persistent_homology(full.g, ties), prioritize)
        run_full(g1) == Bind(compute_full(g1, junk, ties), report)
    IN  Bind(compute_bridges(compute_boundary_scores(
                 compute_connections(g0, DefaultMinStrength))),
             run_full)

(***************************************************************************)
(* Reference definitions the homology properties are stated against; none  *)
(* of them uses the parent array.                                          *)
(***************************************************************************)
Vertices(g) == 0..(Len(g.residents) - 1)

Linked(conns, a, b) ==
    \E k \in DOMAIN conns :
        \/ conns[k].source = a /\ conns[k].target = b
        \/ conns[k].source = b /\ conns[k].target = a

RECURSIVE ReachFrom(_, _)
ReachFrom(g, seen) ==
    LET more == {v \in Vertices(g) : \E u \in seen : Linked(g.connections, u, v)}
    IN  IF more \subseteq seen THEN seen ELSE ReachFrom(g, seen \cup more)

ComponentOf(g, v) == ReachFrom(g, {v})

ComponentCount(g) == Cardinality({ComponentOf(g, v) : v \in Vertices(g)})

\* A spanning forest grown edge by edge over a partition of the vertices: an
\* edge joining two blocks enters the forest, any other edge is left out.
RECURSIVE ForestLeftOut(_, _, _)
ForestLeftOut(conns, blocks, k) ==
    IF k > Len(conns)
    THEN 0
    ELSE LET bs == CHOOSE b \in blocks : conns[k].source \in b
             bt == CHOOSE b \in blocks : conns[k].target \in b
         IN  IF bs = bt
             THEN 1 + ForestLeftOut(conns, blocks, k + 1)
             ELSE ForestLeftOut(conns, (blocks \ {bs, bt}) \cup {bs \cup bt}, k + 1)

SpanningForestLeftOut(g) ==
    ForestLeftOut(g.connections, {{v} : v \in Vertices(g)}, 1)

\* conns with the entries at k and k + 1 exchanged
SwapAt(conns, k) ==
    [i \in DOMAIN conns |->
        IF i = k THEN conns[k + 1] ELSE IF i = k + 1 THEN conns[k] ELSE conns[i]]

\* conns with source and target of entry k exchanged
FlipAt(conns, k) ==
    [conns EXCEPT ![k] = [@ EXCEPT !.source = conns[k].target, !.target = conns[k].source]]

(***************************************************************************)
(* Graphs given edge by edge: a caller fills connections (a public member) *)
(* with any list of edges between distinct members, one per unordered      *)
(* pair, and asks for the Betti numbers.                                   *)
(***************************************************************************)
NoRoom == <<>>

BareConnection(id, s, t) ==
    [id |-> id, source |-> s, target |-> t, type |-> "SHARED_CLASS", strength |-> 20,
     is_bridge_edge |-> FALSE, touches_subcommunities |-> {}]

NoOut == [op |-> "none"]

InitGraph ==
    /\ \E n \in 0..MaxV : residents = [i \in 1..n |-> Resident(i - 1, BareProfile(NoRoom))]
    /\ connections = <<>>
    /\ adj = EmptyMap
    /\ adj_weighted = EmptyMap
    /\ subcommunity_labels = {}
    /\ subcommunity_members = EmptyMap
    /\ build = "stable"
    /\ calls = 0
    /\ out = NoOut
    /\ prev = NoOut

PushConnection(s, t) ==
    /\ Len(connections) < MaxE
    /\ s # t
    /\ ~Linked(connections, s, t)
    /\ connections' = Append(connections, BareConnection(Len(connections), s, t))
    /\ out' = NoOut
    /\ UNCHANGED <<residents, adj, adj_weighted, subcommunity_labels,
                   subcommunity_members, build, calls, prev>>

Betti ==
    /\ out.op = "none"
    /\ out' = [op |-> "betti", h0 |-> h0(G), h1 |-> h1(G)]
    /\ UNCHANGED <<residents, connections, adj, adj_weighted, subcommunity_labels,
                   subcommunity_members, build, calls, prev>>

NextGraph ==
    \/ \E s, t \in Vertices(G) : PushConnection(s, t)
    \/ Betti

SpecGraph == InitGraph /\ [][NextGraph]_vars

\* C1: h1() = |E| - |V| + h0() is the number of edges an independently built
\* spanning forest (one tree per component) leaves out.
C1_H1IsForestComplement ==
    out.op = "betti" => out.h1 = SpanningForestLeftOut(G)

C1_Witness ==
    /\ out.op = "betti"
    /\ out.h1 = 1
    /\ out.h0 = 2
    /\ Len(connections) = 3

\* C2: h0() is the number of connected components, and exchanging two
\* neighbouring connections of the list, or the source and target of one
\* connection, leaves it unchanged.
C2_H0IsComponentCount ==
    out.op = "betti" =>
        /\ out.h0 = ComponentCount(G)
        /\ \A k \in 1..(Len(connections) - 1) :
              h0([G EXCEPT !.connections = SwapAt(connections, k)]) = out.h0
        /\ \A k \in 1..Len(connections) :
              h0([G EXCEPT !.connections = FlipAt(connections, k)]) = out.h0

C2_Witness ==
    /\ out.op = "betti"
    /\ out.h0 = 2
    /\ Len(residents) = 4
    /\ Len(connections) = 2
    /\ connections[1].source > connections[1].target
    /\ connections[2].source = connections[1].target

(***************************************************************************)
(* Member records the callers enter.                                       *)
(***************************************************************************)
Room101 == <<"1", "0", "1">>

Room104 == <<"1", "0", "4">>

Room210 == <<"2", "1", "0">>

Room330 == <<"3", "3", "0">>

RoomA12 == <<"A", "1", "2">>

Mon9to12 == TimeBlock(0, 540, 720)

Mon10to12 == TimeBlock(0, 600, 720)

Mon11to12 == TimeBlock(0, 660, 720)

Profile(room, subs, classes, free_blocks, interests, last_rating, follow_up_needed) ==
    [room |-> room, subcommunities |-> subs, classes |-> classes,
     free_blocks |-> free_blocks, interests |-> interests,
     last_rating |-> last_rating, follow_up_needed |-> follow_up_needed]

Profiles ==
    {Profile(Room101, {"X"}, <<"c1">>, <<Mon9to12>>, {}, 0, FALSE),
     Profile(Room210, {"X", "Y"}, <<"c1", "c2">>, <<Mon10to12>>, {"i1"}, 2, TRUE),
     Profile(Room330, {"Y"}, <<"c2">>, <<>>, {}, 4, FALSE),
     Profile(Room104, {"X"}, <<>>, <<Mon11to12>>, {}, 0, FALSE),
     Profile(RoomA12, {"X"}, <<>>, <<>>, {}, 3, FALSE),
     Profile(NoRoom, {}, <<>>, <<>>, {}, 1, TRUE),
     Profile(Room101, {"Y"}, <<>>, <<Mon9to12>>, {"i1"}, 0, FALSE)}

\* minimum strengths the callers pass, in tenths
MinStrengths == {0, DefaultMinStrength, 20}

Labels == {"X", "Y", "Z"}

(***************************************************************************)
(* The calls on the graph.                                                 *)
(***************************************************************************)
InitEmpty ==
    /\ residents = <<>>
    /\ connections = <<>>
    /\ adj = EmptyMap
    /\ adj_weighted = EmptyMap
    /\ subcommunity_labels = {}
    /\ subcommunity_members = EmptyMap
    /\ calls = 0
    /\ out = NoOut
    /\ prev = NoOut

RECURSIVE index_subs(_, _, _)
index_subs(members, subs, id) ==
    IF subs = {}
    THEN members
    ELSE LET sub == CHOOSE x \in subs : TRUE
         IN  index_subs(push_back(members, sub, id), subs \ {sub}, id)

\* CommunityGraph::add_resident; the caller numbers the members by position
add_resident(g, r) ==
    [g EXCEPT !.residents = Append(@, r),
              !.subcommunity_labels = @ \cup r.subcommunities,
              !.subcommunity_members = index_subs(@, r.subcommunities, r.id)]

\* the graph fields of the state become those of g
Becomes(g) ==
    /\ residents' = g.residents
    /\ connections' = g.connections
    /\ adj' = g.adj
    /\ adj_weighted' = g.adj_weighted
    /\ subcommunity_labels' = g.subcommunity_labels
    /\ subcommunity_members' = g.subcommunity_members

AddResident(p) ==
    /\ Becomes(add_resident(G, Resident(Len(residents), p)))
    /\ out' = NoOut
    /\ prev' = NoOut
    /\ UNCHANGED <<build, calls>>

ComputeConnections(min_strength) ==
    /\ calls < MaxCalls
    /\ Becomes(compute_connections(G, min_strength))
    /\ calls' = calls + 1
    /\ out' = [op |-> "compute_connections", min_strength |-> min_strength]
    /\ UNCHANGED <<build, prev>>

ComputeBoundaryScores ==
    /\ Becomes(compute_boundary_scores(G))
    /\ out' = [op |-> "compute_boundary_scores"]
    /\ UNCHANGED <<build, calls, prev>>

ComputeBridges ==
    /\ \E g \in {compute_bridges(G)} :
          /\ Becomes(g)
          /\ out' = [op |-> "compute_bridges", before |-> get_bridge_residents(G),
                     bridges |-> get_bridge_residents(g)]
    /\ UNCHANGED <<build, calls, prev>>

\* MayerVietorisEngine::compute(G, subA, subB); G is const
Compute(subA, subB) ==
    /\ out' = [op |-> "compute", subA |-> subA, subB |-> subB,
               result |-> mv_compute(G, subA, subB)]
    /\ UNCHANGED <<residents, connections, adj, adj_weighted, subcommunity_labels,
                   subcommunity_members, build, calls, prev>>

\* the values a number that was never assigned may be read as
Indeterminate == {0, 1}

\* CommunityAnalyzer::analyze(G); it runs compute_connections twice
Analyze ==
    /\ calls + 2 <= MaxCalls
    /\ \E junk \in Indeterminate :
          \E a \in {analyze(G, junk, build)} :
              /\ Becomes(a.g)
              /\ out' = [op |-> "analyze", result |-> a.result]
    /\ calls' = calls + 2
    /\ prev' = out
    /\ UNCHANGED build

\* SchedulingOptimizer::find_optimal_event_times(G, top_n); G is const
FindOptimalEventTimes(top_n) ==
    /\ out' = [op |-> "find_optimal_event_times", top_n |-> top_n,
               scores |-> find_optimal_event_times(G, top_n, build)]
    /\ UNCHANGED <<residents, connections, adj, adj_weighted, subcommunity_labels,
                   subcommunity_members, build, calls, prev>>

\* the members are entered first: the engine works on a snapshot
EnterResident ==
    /\ calls = 0
    /\ out.op = "none"
    /\ Len(residents) < MaxResidents
    /\ \E p \in Profiles : AddResident(p)

(***************************************************************************)
(* Edge synthesis alone.                                                   *)
(***************************************************************************)
InitConnections == InitEmpty /\ build = "stable"

NextConnections ==
    \/ EnterResident
    \/ \E m \in MinStrengths : ComputeConnections(m)

SpecConnections == InitConnections /\ [][NextConnections]_vars

FreshGraph ==
    Graph([i \in DOMAIN residents |-> Resident(residents[i].id, residents[i])],
          <<>>, EmptyMap, EmptyMap, subcommunity_labels, subcommunity_members)

\* C4: after any number of compute_connections calls, connections, adj and
\* adj_weighted are those a single call on a freshly built graph produces.
C4_RebuiltFromScratch ==
    out.op = "compute_connections" =>
        LET fresh == compute_connections(FreshGraph, out.min_strength)
        IN  /\ connections = fresh.connections
            /\ adj = fresh.adj
            /\ adj_weighted = fresh.adj_weighted

\* the six signals the edge synthesis is described with
SignalFired(r1, r2) ==
    \/ count_shared_classes(r1, r2) > 0
    \/ compute_schedule_overlap(r1, r2) >= 2
    \/ count_shared_interests(r1, r2) > 0
    \/ r1.room = r2.room
    \/ are_neighbors(r1.room, r2.room)
    \/ r1.subcommunities \cap r2.subcommunities # {}

\* C5: a pair of members has a connection exactly when its summed strength
\* is at least min_strength and one of the six signals fired.
C5_ConnectionIffSignal ==
    out.op = "compute_connections" =>
        \A i, j \in DOMAIN residents :
            i < j =>
                (Linked(connections, residents[i].id, residents[j].id)
                   <=> /\ pair_signals(residents[i], residents[j]).total_strength
                            >= out.min_strength
                       /\ SignalFired(residents[i], residents[j]))


(***************************************************************************)
(* The analyzer pipeline on a snapshot.                                    *)
(***************************************************************************)
InitAnalyze == InitEmpty /\ build \in Builds

NextAnalyze ==
    \/ EnterResident
    \/ Analyze

SpecAnalyze == InitAnalyze /\ [][NextAnalyze]_vars

\* what a CommunityAnalysis reports: every member that analyze assigns
Reported(a) ==
    [h0 |-> a.homology.h0_A,
     h1 |-> a.homology.h1_union,
     is_cohesive |-> a.homology.is_cohesive,
     isolation_risk |-> a.homology.isolation_risk,
     bridge_residents |-> a.homology.bridge_residents,
     holes |-> a.homology.holes,
     suggested_introductions |-> a.homology.suggested_introductions,
     community_health |-> a.homology.community_health,
     diagnosis |-> a.homology.diagnosis,
     persistence |-> a.persistence,
     optimal_event_times |-> a.optimal_event_times,
     prioritized_checkins |-> a.prioritized_checkins,
     health_score |-> a.health_score,
     isolation_count |-> a.isolation_count,
     bridge_count |-> a.bridge_count,
     hole_count |-> a.hole_count]

\* C3: two analyze calls in succession on the same graph return equal
\* CommunityAnalysis values.
C3_AnalyzeTwiceEqual ==
    (out.op = "analyze" /\ prev.op = "analyze") => out.result = prev.result

\* the two values agree on every member that analyze assigns; they differ
\* only in the members of homology that compute_full leaves unassigned
AssignedFieldsEqual ==
    (out.op = "analyze" /\ prev.op = "analyze") =>
        Reported(out.result) = Reported(prev.result)

\* the score the priority rule gives member r, from the lists analyze returned
RuleScore(r, a) ==
    50 + (IF r.id \in Range(a.homology.isolation_risk) THEN 30 ELSE 0)
       + (IF \E k \in DOMAIN a.persistence.fragile_groups :
                 r.id \in Range(a.persistence.fragile_groups[k]) THEN 20 ELSE 0)
       + (IF r.last_rating \in {1, 2} THEN 25 ELSE 0)
       + (IF r.follow_up_needed THEN 15 ELSE 0)
       + (IF r.is_bridge THEN 5 ELSE 0)
       - (IF \E k \in DOMAIN a.persistence.stable_groups :
                 r.id \in Range(a.persistence.stable_groups[k]) THEN 10 ELSE 0)

\* C7: prioritized_checkins holds every member exactly once, with the score
\* 50 +30 isolated +20 fragile group +25 rating 1 or 2 +15 follow-up
\* +5 bridge -10 stable group.
C7_PriorityScores ==
    out.op = "analyze" =>
        LET pc == out.result.prioritized_checkins
        IN  /\ Len(pc) = Len(residents)
            /\ \A i \in DOMAIN residents :
                  \E k \in DOMAIN pc :
                      /\ pc[k][1] = residents[i].id
                      /\ pc[k][2] = RuleScore(residents[i], out.result)
                      /\ \A m \in DOMAIN pc : pc[m][1] = residents[i].id => m = k

\* a member in a stable group that is a bridge, rated low and flagged for
\* follow-up (50 + 25 + 15 + 5 - 10), next to a member with no term at all
C7_Witness ==
    /\ out.op = "analyze"
    /\ \E k \in DOMAIN out.result.prioritized_checkins :
          out.result.prioritized_checkins[k][2] = 85
    /\ \E k \in DOMAIN out.result.prioritized_checkins :
          out.result.prioritized_checkins[k][2] = 50
    /\ out.result.persistence.stable_groups # <<>>
    /\ out.result.homology.bridge_residents # <<>>

\* the position of member id in the member list
PositionOf(id) == CHOOSE i \in DOMAIN residents : residents[i].id = id

\* C8: prioritized_checkins is in descending score order, members of equal
\* score in member-list order.
C8_SortedStable ==
    out.op = "analyze" =>
        LET pc == out.result.prioritized_checkins
        IN  \A k, m \in DOMAIN pc :
                k < m =>
                    \/ pc[k][2] > pc[m][2]
                    \/ pc[k][2] = pc[m][2] /\ PositionOf(pc[k][1]) < PositionOf(pc[m][1])

(***************************************************************************)
(* The Mayer-Vietoris engine on a graph the caller has prepared.           *)
(***************************************************************************)
InitMV == InitEmpty /\ build = "stable"

NextMV ==
    \/ EnterResident
    \/ calls = 0 /\ ComputeConnections(DefaultMinStrength)
    \/ ComputeBoundaryScores
    \/ ComputeBridges
    \/ \E subA, subB \in Labels : Compute(subA, subB)

SpecMV == InitMV /\ [][NextMV]_vars

\* C6: the community_health of compute(G, A, B) is
\* clamp(100 - 15 (h0 - 1) - 5 max(0, h1 - 2) - 3 |isolation_risk|
\*       + 2 |bridge_residents|, 0, 100), with the lists of the same Result.
C6_HealthFromResultLists ==
    out.op = "compute" =>
        out.result.community_health =
            Max2(0, Min2(100, 100 - 15 * (h0(G) - 1)
                                  - 5 * Max2(0, h1(G) - 2)
                                  - 3 * Len(out.result.isolation_risk)
                                  + 2 * Len(out.result.bridge_residents)))

\* what compute returns instead: the two lists are still empty when the
\* score is taken
HealthFromBettiAlone ==
    out.op = "compute" =>
        out.result.community_health =
            Max2(0, Min2(100, 100 - 15 * (h0(G) - 1) - 5 * Max2(0, h1(G) - 2)))

(***************************************************************************)
(* Bridge detection after edge synthesis.                                  *)
(***************************************************************************)
InitBridges == InitEmpty /\ build = "stable"

NextBridges ==
    \/ EnterResident
    \/ \E m \in MinStrengths : ComputeConnections(m)
    \/ ComputeBridges

SpecBridges == InitBridges /\ [][NextBridges]_vars

\* g with every connection incident to member id deleted
WithoutEdgesOf(g, id) ==
    LET away(c) == c.source # id /\ c.target # id
    IN  [g EXCEPT !.connections = SelectSeq(g.connections, away)]

\* subgroups X and Y share exactly the member at position m, which has a
\* neighbour a of X outside Y and a neighbour b of Y outside X, and every
\* path between a and b passes through it
SoleLink(m, X, Y) ==
    /\ X # Y
    /\ {i \in DOMAIN residents : {X, Y} \subseteq residents[i].subcommunities} = {m}
    /\ \E a, b \in DOMAIN residents :
          /\ X \in residents[a].subcommunities /\ Y \notin residents[a].subcommunities
          /\ Y \in residents[b].subcommunities /\ X \notin residents[b].subcommunities
          /\ Linked(connections, residents[m].id, residents[a].id)
          /\ Linked(connections, residents[m].id, residents[b].id)
          /\ residents[b].id \notin
                 ComponentOf(WithoutEdgesOf(G, residents[m].id), residents[a].id)

\* C10: after compute_connections and compute_bridges, the one member two
\* subgroups share, being the only link between a cluster of the one and a
\* cluster of the other, is a bridge resident, and the graph without its
\* connections has more components.
C10_SoleLinkIsBridge ==
    out.op = "compute_bridges" =>
        \A m \in DOMAIN residents : \A X, Y \in Labels :
            SoleLink(m, X, Y) =>
                /\ residents[m].id \in Range(get_bridge_residents(G))
                /\ h0(WithoutEdgesOf(G, residents[m].id)) > h0(G)

C10_Witness ==
    /\ out.op = "compute_bridges"
    /\ \E m \in DOMAIN residents : \E X, Y \in Labels : SoleLink(m, X, Y)

(***************************************************************************)
(* The scheduling optimizer on a floor of members with free blocks.        *)
(***************************************************************************)
Mon9to930 == TimeBlock(0, 540, 570)

Mon930to10 == TimeBlock(0, 570, 600)

Tue830to930 == TimeBlock(1, 510, 570)

SchedProfiles ==
    {Profile(NoRoom, {}, <<>>, <<Mon9to12>>, {}, 0, FALSE),
     Profile(NoRoom, {}, <<>>, <<Mon9to930, Mon930to10, Tue830to930>>, {}, 0, FALSE),
     Profile(NoRoom, {}, <<>>, <<>>, {}, 0, FALSE)}

TopNs == 0..MaxTopN \cup {DefaultTopN}

EnterSchedResident ==
    /\ out.op = "none"
    /\ Len(residents) < SchedResidents
    /\ \E p \in SchedProfiles : AddResident(p)

InitSched == InitEmpty /\ build \in Builds

NextSched ==
    \/ EnterSchedResident
    \/ ComputeBoundaryScores
    \/ \E top_n \in TopNs : FindOptimalEventTimes(top_n)

SpecSched == InitSched /\ [][NextSched]_vars

\* the members with a free block that shares a minute with the slot
FreeIn(slot) ==
    {i \in DOMAIN residents :
        \E k \in DOMAIN residents[i].free_blocks :
            LET f == residents[i].free_blocks[k]
            IN  /\ f.day = slot.day
                /\ Max2(f.start_min, slot.start_min) < Min2(f.end_min, slot.end_min)}

\* C9: find_optimal_event_times returns at most top_n slots, each with
\* available_count >= 5, the number of distinct members with a free block
\* overlapping the slot.
C9_AtMostTopNAttended ==
    out.op = "find_optimal_event_times" =>
        /\ Len(out.scores) <= out.top_n
        /\ \A k \in DOMAIN out.scores :
              /\ out.scores[k].available_count >= 5
              /\ out.scores[k].available_count = Cardinality(FreeIn(out.scores[k].slot))

\* the cut happened: top_n slots came back and an attended slot was dropped
C9_Witness ==
    /\ out.op = "find_optimal_event_times"
    /\ out.top_n >= 1
    /\ Len(out.scores) = out.top_n
    /\ \E k \in DOMAIN candidate_slots :
          /\ Cardinality(FreeIn(candidate_slots[k])) >= 5
          /\ \A m \in DOMAIN out.scores : out.scores[m].slot # candidate_slots[k]

(***************************************************************************)
(* Bridge detection on members whose is_bridge the caller has set: a       *)
(* Resident is a plain struct and add_resident copies it as it is.         *)
(***************************************************************************)
FlagProfiles ==
    {Profile(Room101, {"X"}, <<"c1">>, <<Mon9to12>>, {}, 0, FALSE),
     Profile(Room210, {"X", "Y"}, <<"c1", "c2">>, <<Mon10to12>>, {"i1"}, 2, TRUE),
     Profile(NoRoom, {}, <<>>, <<>>, {}, 1, TRUE)}

EnterFlaggedResident ==
    /\ calls = 0
    /\ out.op = "none"
    /\ Len(residents) < MaxResidents
    /\ \E p \in FlagProfiles : \E flag \in BOOLEAN :
          /\ Becomes(add_resident(G, [Resident(Len(residents), p) EXCEPT !.is_bridge = flag]))
          /\ UNCHANGED <<build, calls, out, prev>>

InitFlags == InitEmpty /\ build = "stable"

NextFlags ==
    \/ EnterFlaggedResident
    \/ \E m \in MinStrengths : ComputeConnections(m)
    \/ ComputeBridges

SpecFlags == InitFlags /\ [][NextFlags]_vars

\* C11: after compute_bridges a member in no subgroup or in one has
\* is_bridge = false, whatever its neighbours are and whatever the flag was.
C11_FewSubgroupsNeverBridge ==
    out.op = "compute_bridges" =>
        \A i \in DOMAIN residents :
            Cardinality(residents[i].subcommunities) <= 1 => ~residents[i].is_bridge

\* a member of one subgroup that was flagged before the call and whose
\* neighbours span two subgroups
C11_Witness ==
    /\ out.op = "compute_bridges"
    /\ \E i \in DOMAIN residents :
          /\ Cardinality(residents[i].subcommunities) <= 1
          /\ residents[i].id \in Range(out.before)
          /\ Cardinality(connected_subs(G, residents[i])) >= 2

(***************************************************************************)
(* Boundary scores on graphs built one connection at a time.               *)
(***************************************************************************)
NextDegrees ==
    \/ \E s, t \in Vertices(G) : PushConnection(s, t)
    \/ ComputeBoundaryScores

SpecDegrees == InitGraph /\ [][NextDegrees]_vars

\* the number of connections that have the member as an endpoint
Incident(id) ==
    Cardinality({k \in DOMAIN connections :
                    id \in {connections[k].source, connections[k].target}})

\* C12: after compute_boundary_scores the boundary score does not increase
\* with the degree; a member of degree 0 has score exactly 1 and a member of
\* the largest degree, when that is positive, has score exactly 0.
C12_BoundaryMonotoneInDegree ==
    out.op = "compute_boundary_scores" =>
        \A i \in DOMAIN residents :
            LET r == residents[i]
            IN  /\ \A j \in DOMAIN residents :
                       Incident(r.id) < Incident(residents[j].id) =>
                           FracLeq(residents[j].boundary_score, r.boundary_score)
                /\ Incident(r.id) = 0 => r.boundary_score[1] = r.boundary_score[2]
                /\ (/\ Incident(r.id) > 0
                    /\ \A j \in DOMAIN residents : Incident(residents[j].id) <= Incident(r.id))
                       => r.boundary_score[1] = 0

\* three different degrees, among them 0 and the largest, here 2 or more
C12_Witness ==
    /\ out.op = "compute_boundary_scores"
    /\ \E i, j, k \in DOMAIN residents :
          /\ Incident(residents[i].id) = 0
          /\ Incident(residents[j].id) > 0
          /\ Incident(residents[j].id) < Incident(residents[k].id)
          /\ FracLess(residents[k].boundary_score, residents[j].boundary_score)
          /\ FracLess(residents[j].boundary_score, residents[i].boundary_score)

(***************************************************************************)
(* Cycles.  The pair loop of compute_connections visits the pairs of       *)
(* positions in order; whether a pair is connected depends on the members' *)
(* data, which is left open here: ConnectPair is the body of the loop for  *)
(* a pair that passes the test.                                            *)
(***************************************************************************)
ConnectPair(s, t) ==
    /\ s < t
    /\ IF connections = <<>>
       THEN TRUE
       ELSE LET c == connections[Len(connections)]
            IN  IF c.source = s THEN c.target < t ELSE c.source < s
    /\ connections' = Append(connections, BareConnection(Len(connections), s, t))
    /\ adj' = push_back(push_back(adj, s, t), t, s)
    /\ out' = NoOut
    /\ UNCHANGED <<residents, adj_weighted, subcommunity_labels, subcommunity_members,
                   build, calls, prev>>

FindCycles ==
    /\ out.op = "none"
    /\ out' = [op |-> "find_cycles", cycles |-> find_cycles(G)]
    /\ UNCHANGED <<residents, connections, adj, adj_weighted, subcommunity_labels,
                   subcommunity_members, build, calls, prev>>

NextCycles ==
    \/ \E s, t \in Vertices(G) : ConnectPair(s, t)
    \/ Betti
    \/ FindCycles

SpecCycles == InitGraph /\ [][NextCycles]_vars

\* connected, with as many connections as members
OneExtraEdge ==
    /\ Len(residents) > 0
    /\ ComponentCount(G) = 1
    /\ Len(connections) = Len(residents)

WithoutConnection(g, k) ==
    [g EXCEPT !.connections = SubSeq(@, 1, k - 1) \o SubSeq(@, k + 1, Len(@))]

\* the connections whose removal leaves a spanning tree
CycleEdges ==
    {k \in DOMAIN connections : ComponentCount(WithoutConnection(G, k)) = 1}

\* C13: on a connected graph with |E| = |V|, h1() = 1, find_cycles returns
\* at least one cycle, and every cycle it returns contains an endpoint of a
\* connection whose removal leaves a spanning tree.
C13_OneExtraEdgeOneCycle ==
    /\ (out.op = "betti" /\ OneExtraEdge) => out.h1 = 1
    /\ (out.op = "find_cycles" /\ OneExtraEdge) =>
          /\ out.cycles # <<>>
          /\ \A m \in DOMAIN out.cycles :
                \E k \in CycleEdges :
                    {connections[k].source, connections[k].target}
                        \cap Range(out.cycles[m]) # {}

\* a triangle with a fourth member hanging off it, and the cycle found
C13_Witness ==
    /\ out.op = "find_cycles"
    /\ OneExtraEdge
    /\ Cardinality(CycleEdges) < Len(connections)
    /\ Len(out.cycles) = 1
    /\ Cardinality(Range(out.cycles[1])) = Cardinality(CycleEdges)

\* C14: with no connection, for any number of members (none included),
\* h0() = |V|, h1() = 0 and find_cycles returns no cycle; both calls return.
C14_NoConnections ==
    connections = <<>> =>
        /\ out.op = "betti" => (out.h0 = Len(residents) /\ out.h1 = 0)
        /\ out.op = "find_cycles" => out.cycles = <<>>

\* the Betti numbers of a graph of several members and no connection
C14_Witness ==
    /\ out.op = "betti"
    /\ connections = <<>>
    /\ Len(residents) >= 2
    /\ out.h0 = Len(residents)

(***************************************************************************)
(* The health score of compute and of compute_full, under a build that     *)
(* rounds every float operation and under one that fuses multiply-adds.    *)
(***************************************************************************)
\* MayerVietorisEngine::compute_full(G)
ComputeFull ==
    /\ calls < MaxCalls
    /\ \E junk \in Indeterminate :
          \E full \in {compute_full(G, junk, build)} :
              /\ Becomes(full.g)
              /\ out' = [op |-> "compute_full", result |-> full.r]
    /\ calls' = calls + 1
    /\ UNCHANGED <<build, prev>>

InitHealth == InitEmpty /\ build \in FloatBuilds

NextHealth ==
    \/ EnterResident
    \/ calls = 0 /\ ComputeFull
    \/ \E subA, subB \in Labels : Compute(subA, subB)

SpecHealth == InitHealth /\ [][NextHealth]_vars

\* C15: the community_health that compute returns and the one compute_full
\* returns are both >= 0 and <= 100, on every graph.
C15_HealthInRange ==
    /\ out.op = "compute" =>
          (0 <= out.result.community_health /\ out.result.community_health <= 100)
    /\ out.op = "compute_full" =>
          /\ exact_leq(<<0, 0, 0>>, out.result.community_health)
          /\ exact_leq(out.result.community_health, <<100, 0, 0>>)

\* what does hold: the range on a build that rounds after every operation,
\* and the range of compute on either build
HealthInRangeWhenRounded ==
    (build = "stable" \/ out.op = "compute") => C15_HealthInRange

(***************************************************************************)
(* compute(G, A, B) with a label nobody has.                               *)
(***************************************************************************)
\* members carry the label
Exists(sub) == \E i \in DOMAIN residents : sub \in residents[i].subcommunities

\* the label of the call that nobody has, the other one being some member's
AbsentSide ==
    IF out.op # "compute"
    THEN "none"
    ELSE IF ~Exists(out.subA) /\ Exists(out.subB)
         THEN "A"
         ELSE IF Exists(out.subA) /\ ~Exists(out.subB) THEN "B" ELSE "none"

\* C16: compute(G, A, B) where one label has no member and the other has
\* returns a Result; the induced subgraph of the absent label and the
\* intersection are empty, with h0 = 0 and h1 = 0.
C16_AbsentLabelEmptySubgraph ==
    AbsentSide # "none" =>
        LET r == out.result
            absent == IF AbsentSide = "A" THEN out.subA ELSE out.subB
            present == IF AbsentSide = "A" THEN out.subB ELSE out.subA
            S == extract_subcommunity(G, absent)
            I == intersection_compute(G, out.subA, out.subB)
        IN  /\ S.residents = <<>> /\ S.connections = <<>>
            /\ I.residents = <<>> /\ I.connections = <<>>
            /\ r.h0_intersection = 0 /\ r.h1_intersection = 0
            /\ IF AbsentSide = "A"
               THEN r.h0_A = 0 /\ r.h1_A = 0 /\ r.h0_B = h0(extract_subcommunity(G, present))
               ELSE r.h0_B = 0 /\ r.h1_B = 0 /\ r.h0_A = h0(extract_subcommunity(G, present))
            /\ r.kernel_i0 = 0
            /\ r.h1_union = h1(G)
            /\ r.community_health \in 0..100
            /\ r.diagnosis[7] = 0

\* the first label is nobody's, the second is held by two connected members
C16_Witness ==
    /\ AbsentSide = "A"
    /\ out.result.h0_A = 0
    /\ out.result.h0_B >= 1
    /\ Len(extract_subcommunity(G, out.subB).connections) >= 1

(***************************************************************************)
(* The calls a caller may get wrong.  No function of the engine throws or  *)
(* returns a status: compute returns a Result and find_optimal_event_times *)
(* a list, whatever the graph.  (compute_priority_order is private and is  *)
(* reached through analyze only, after analyze has run compute_connections.)*)
(***************************************************************************)
InitCalls == InitEmpty /\ build = "stable"

NextCalls ==
    \/ EnterResident
    \/ calls = 0 /\ ComputeConnections(DefaultMinStrength)
    \/ \E subA, subB \in Labels : Compute(subA, subB)
    \/ FindOptimalEventTimes(DefaultTopN)

SpecCalls == InitCalls /\ [][NextCalls]_vars

\* members were added and compute_connections has not run since
EdgesNotSynthesized == Len(residents) > 0 /\ calls = 0

\* C17: compute(G, A, B) with neither label in G, and a scheduling request
\* on a graph whose connections were not computed since its members were
\* added, end in a caller error: a result is returned by compute only when
\* one of the labels exists, and by find_optimal_event_times only after
\* compute_connections.
C17_CallerErrors ==
    /\ out.op = "compute" => (Exists(out.subA) \/ Exists(out.subB))
    /\ out.op = "find_optimal_event_times" => ~EdgesNotSynthesized

\* what the two calls return in those cases: a Result with every subgraph
\* number 0, and the list of slots
ReturnsOnCallerError ==
    /\ (out.op = "compute" /\ ~Exists(out.subA) /\ ~Exists(out.subB)) =>
          /\ out.result.h0_A = 0 /\ out.result.h0_B = 0 /\ out.result.h0_intersection = 0
          /\ out.result.h1_union = h1(G)
    /\ (out.op = "find_optimal_event_times" /\ EdgesNotSynthesized) =>
          out.scores = find_optimal_event_times(G, DefaultTopN, build)

(***************************************************************************)
(* Members with ids of the caller's choosing.  add_resident keeps the id   *)
(* it is given, compute_connections puts ids in connections and adj, and   *)
(* h0 and compute_bridges use an id as an index: parent[find(c.source)],   *)
(* residents[neighbor_id].  An index past the end is undefined behaviour:  *)
(* the call faults, or goes on with whatever the read returned.            *)
(***************************************************************************)
IdPool == 0..MaxResidents

IdProfiles ==
    {Profile(Room101, {"X"}, <<"c1">>, <<Mon9to12>>, {}, 0, FALSE),
     Profile(Room210, {"X", "Y"}, <<"c1", "c2">>, <<Mon10to12>>, {"i1"}, 2, TRUE),
     Profile(Room330, {"Y"}, <<"c2">>, <<>>, {}, 4, FALSE)}

EnterResidentWithId ==
    /\ calls = 0
    /\ out.op = "none"
    /\ Len(residents) < MaxResidents
    /\ \E p \in IdProfiles :
          \E id \in IdPool \ {residents[i].id : i \in DOMAIN residents} :
              Becomes(add_resident(G, Resident(id, p)))
    /\ UNCHANGED <<build, calls, out, prev>>

\* id is an index into residents, and into the parent array of h0
InRange(id) == id < Len(residents)

\* CommunityGraph::h0 on the graph as it stands
H0 ==
    /\ IF \A k \in DOMAIN connections :
              InRange(connections[k].source) /\ InRange(connections[k].target)
       THEN out' = [op |-> "h0", outcome |-> "returned", h0 |-> h0(G)]
       ELSE \/ out' = [op |-> "h0", outcome |-> "fault"]
            \/ \E v \in 1..Len(residents) :
                  out' = [op |-> "h0", outcome |-> "returned", h0 |-> v]
    /\ UNCHANGED <<residents, connections, adj, adj_weighted, subcommunity_labels,
                   subcommunity_members, build, calls, prev>>

\* the members for which compute_bridges reads residents[] past the end
ReadsPastEnd ==
    {i \in DOMAIN residents :
        /\ Cardinality(residents[i].subcommunities) >= 2
        /\ residents[i].id \in DOMAIN adj
        /\ \E k \in DOMAIN adj[residents[i].id] : ~InRange(adj[residents[i].id][k])}

\* CommunityGraph::compute_bridges on the graph as it stands
ComputeBridgesById ==
    /\ \/ /\ ReadsPastEnd # {}
          /\ out' = [op |-> "compute_bridges", outcome |-> "fault"]
          /\ UNCHANGED residents
       \/ \E flags \in [DOMAIN residents -> BOOLEAN] :
             /\ \A i \in DOMAIN residents \ ReadsPastEnd :
                   flags[i] = (/\ Cardinality(residents[i].subcommunities) >= 2
                               /\ Cardinality(connected_subs(G, residents[i])) >= 2)
             /\ residents' = [i \in DOMAIN residents |->
                                 [residents[i] EXCEPT !.is_bridge = flags[i]]]
             /\ out' = [op |-> "compute_bridges", outcome |-> "returned"]
    /\ UNCHANGED <<connections, adj, adj_weighted, subcommunity_labels,
                   subcommunity_members, build, calls, prev>>

InitIds == InitEmpty /\ build = "stable"

NextIds ==
    \/ EnterResidentWithId
    \/ calls = 0 /\ ComputeConnections(DefaultMinStrength)
    \/ H0
    \/ ComputeBridgesById

SpecIds == InitIds /\ [][NextIds]_vars

\* the list position, from 0, of the member with the id
PositionOfId(id) == (CHOOSE i \in DOMAIN residents : residents[i].id = id) - 1

\* the graph with every id renamed to its list position
Renamed ==
    LET rename(ids) == [k \in DOMAIN ids |-> PositionOfId(ids[k])]
    IN  [G EXCEPT
           !.residents = [i \in DOMAIN residents |-> [residents[i] EXCEPT !.id = i - 1]],
           !.connections = [k \in DOMAIN connections |->
                               [connections[k] EXCEPT
                                  !.source = PositionOfId(connections[k].source),
                                  !.target = PositionOfId(connections[k].target)]],
           !.adj = [p \in {PositionOfId(id) : id \in DOMAIN adj} |->
                       rename(adj[residents[p + 1].id])]]

\* C18: with arbitrary unique ids, h0 and compute_bridges stay inside the
\* member list and the parent array and give the results of the graph whose
\* ids are renamed to list positions.
C18_AnyUniqueIds ==
    /\ out.op = "h0" =>
          (out.outcome = "returned" /\ out.h0 = h0(Renamed))
    /\ (out.op = "compute_bridges" /\ "outcome" \in DOMAIN out) =>
          /\ out.outcome = "returned"
          /\ \A i \in DOMAIN residents :
                residents[i].is_bridge = compute_bridges(Renamed).residents[i].is_bridge

\* the same with nothing read past the end: the flags can still differ
InRangeIdsAgree ==
    (/\ out.op = "compute_bridges"
     /\ "outcome" \in DOMAIN out
     /\ \A i \in DOMAIN residents : InRange(residents[i].id)) =>
        \A i \in DOMAIN residents :
            residents[i].is_bridge = compute_bridges(Renamed).residents[i].is_bridge

\* what does hold: ids equal to list positions
PositionIdsAgree ==
    (\A i \in DOMAIN residents : residents[i].id = i - 1) => C18_AnyUniqueIds

(***************************************************************************)
(* The bridge flag against the header's THEOREM 3.                         *)
(***************************************************************************)
\* removing the member at position i and its connections leaves more
\* components than the graph has: the member alone is one component of
\* WithoutEdgesOf, and is not counted
RaisesBetti0(i) ==
    ComponentCount(WithoutEdgesOf(G, residents[i].id)) - 1 > ComponentCount(G)

\* the subgroup labels of the members a connection joins to member i
NeighbourLabels(i) ==
    UNION {residents[j].subcommunities :
              j \in {j \in DOMAIN residents :
                        Linked(connections, residents[i].id, residents[j].id)}}

UnflaggedCutMember ==
    /\ out.op = "compute_bridges"
    /\ \E i \in DOMAIN residents : RaisesBetti0(i) /\ ~residents[i].is_bridge

(***************************************************************************)
(* Persistence on floors of four: two pairs of different strength and a    *)
(* weaker link between them.                                               *)
(***************************************************************************)
PersistProfiles ==
    {Profile(Room101, {}, <<>>, <<>>, {}, 0, FALSE),
     Profile(Room101, {}, <<>>, <<>>, {"i1"}, 0, FALSE),
     Profile(Room330, {}, <<"c2">>, <<>>, {"i1"}, 0, FALSE),
     Profile(RoomA12, {}, <<"c2">>, <<>>, {}, 0, FALSE)}

EnterPersistResident ==
    /\ calls = 0
    /\ out.op = "none"
    /\ Len(residents) < MaxV
    /\ \E p \in PersistProfiles : AddResident(p)

\* PersistentHomology::compute(G); G is const
ComputePersistence ==
    /\ out' = [op |-> "persistence", result |-> persistent_homology(G, build)]
    /\ UNCHANGED <<residents, connections, adj, adj_weighted, subcommunity_labels,
                   subcommunity_members, build, calls, prev>>

InitPersist == InitEmpty /\ build \in Builds

NextPersist ==
    \/ EnterPersistResident
    \/ calls = 0 /\ ComputeConnections(DefaultMinStrength)
    \/ ComputePersistence

SpecPersist == InitPersist /\ [][NextPersist]_vars

\* The barcodes as the claim describes them, over components kept as
\* blocks.  A block has its members, its root and the smallest filtration
\* value at which that root took part in a merge (-1: never); the merged
\* block keeps the root of the source's block.
RECURSIVE RecordedBarcodes(_, _, _, _, _)
RecordedBarcodes(sorted, max_conn_strength, blocks, barcodes, k) ==
    IF k > Len(sorted)
    THEN barcodes
    ELSE LET c == sorted[k]
             S == CHOOSE b \in blocks : c.source \in b.members
             T == CHOOSE b \in blocks : c.target \in b.members
             value == max_conn_strength - c.strength
             merged == [members |-> S.members \cup T.members,
                        root |-> S.root,
                        first |-> IF S.first = -1 THEN value ELSE S.first]
             b == [dimension |-> 0,
                   birth |-> IF T.first = -1 THEN 0 ELSE T.first,
                   death |-> value,
                   residents |-> ascending(T.members)]
         IN  IF S = T
             THEN RecordedBarcodes(sorted, max_conn_strength, blocks, barcodes, k + 1)
             ELSE RecordedBarcodes(sorted, max_conn_strength,
                                   (blocks \ {S, T}) \cup {merged},
                                   IF Cardinality(T.members) > 1
                                   THEN Append(barcodes, b) ELSE barcodes,
                                   k + 1)

ClaimedBarcodes ==
    LET strength(c) == c.strength
        sorted == std_sort(connections, strength, build)
    IN  IF sorted = <<>>
        THEN <<>>
        ELSE RecordedBarcodes(sorted, sorted[1].strength,
                              {[members |-> {v}, root |-> v, first |-> -1] : v \in Vertices(G)},
                              <<>>, 1)

\* C20: a barcode is recorded for a merge only when the absorbed component
\* has more than one member; it has dimension 0, the members of the absorbed
\* component, death = max strength - s, and birth = the smallest filtration
\* value at which the absorbed component's root took part in a merge before.
C20_BarcodeBirthRecorded ==
    out.op = "persistence" => out.result.barcodes = ClaimedBarcodes

\* what does hold: the barcodes are the claimed ones with every birth 0
BarcodesWithBirthZero ==
    out.op = "persistence" =>
        out.result.barcodes =
            [k \in DOMAIN ClaimedBarcodes |-> [ClaimedBarcodes[k] EXCEPT !.birth = 0]]

\* C21: with connections of equal strength, the barcodes (members, births,
\* deaths and their order) are those obtained by taking equal strengths in
\* connection-list order, however the sort of the build orders ties.
C21_BarcodesOfStableOrder ==
    out.op = "persistence" =>
        out.result.barcodes = persistent_homology(G, "stable").barcodes

\* what does hold: a build whose sort keeps ties in list order, and any
\* build when no two connections have the same strength
BarcodesWhenNoTies ==
    (\/ build = "stable"
     \/ \A j, k \in DOMAIN connections :
           j # k => connections[j].strength # connections[k].strength)
        => C21_BarcodesOfStableOrder

(***************************************************************************)
(* The scheduling optimizer on members who are free early in the morning.  *)
(***************************************************************************)
HoursPerDay == 24

Mon7to10 == TimeBlock(0, 420, 600)

WeekProfiles ==
    {Profile(NoRoom, {}, <<>>, <<Mon7to10>>, {}, 0, FALSE),
     Profile(NoRoom, {}, <<>>, <<Mon9to12>>, {}, 0, FALSE)}

\* the default, and a top_n no smaller than the number of hours of a week
WeekTopNs == {DefaultTopN, DaysPerWeek * HoursPerDay}

EnterWeekResident ==
    /\ out.op = "none"
    /\ Len(residents) < SchedResidents
    /\ \E p \in WeekProfiles : AddResident(p)

InitWeek == InitEmpty /\ build \in Builds

NextWeek ==
    \/ EnterWeekResident
    \/ \E top_n \in WeekTopNs : FindOptimalEventTimes(top_n)

SpecWeek == InitWeek /\ [][NextWeek]_vars

\* the one-hour slots of the hours lo .. hi - 1 of every day at which at
\* least five members have a free block overlapping the slot
AttendedSlots(lo, hi) ==
    {s \in {hour_slot(day, hour) : day \in 0..(DaysPerWeek - 1), hour \in lo..(hi - 1)} :
        Cardinality(FreeIn(s)) >= MinAttendance}

Returned == {out.scores[k].slot : k \in DOMAIN out.scores}

\* C22: every one-hour slot of the 7 days x 24 hours at which at least five
\* members have a free block overlapping it is a candidate, and is returned
\* whenever top_n is at least the number of such candidates.
C22_EveryHourOfTheWeek ==
    (/\ out.op = "find_optimal_event_times"
     /\ out.top_n >= Cardinality(AttendedSlots(0, HoursPerDay)))
        => AttendedSlots(0, HoursPerDay) \subseteq Returned

\* what does hold: the hours 8 .. 21 of every day are the candidates
ScannedHoursReturned ==
    (/\ out.op = "find_optimal_event_times"
     /\ out.top_n >= Cardinality(AttendedSlots(FirstHour, EndHour)))
        => AttendedSlots(FirstHour, EndHour) = Returned

(***************************************************************************)
(* Introductions on a floor of five: a member of room 101 with two         *)
(* classes, a roommate, one classmate for each class, and a member who     *)
(* shares at most an interest; each position has a variant.                *)
(***************************************************************************)
MaxIntro == 5

IntroFloor ==
    <<{Profile(Room101, {"X"}, <<"c1", "c2">>, <<>>, {}, 0, FALSE),
       Profile(Room101, {"X"}, <<"c1">>, <<>>, {}, 0, FALSE)},
      {Profile(Room101, {"X"}, <<>>, <<>>, {}, 0, FALSE),
       Profile(Room104, {"X"}, <<>>, <<>>, {}, 0, FALSE)},
      {Profile(Room330, {"Y"}, <<"c1">>, <<>>, {}, 0, FALSE),
       Profile(Room330, {"Y"}, <<"c1", "c2">>, <<>>, {}, 0, FALSE)},
      {Profile(RoomA12, {"X", "Y"}, <<"c2">>, <<>>, {"i1"}, 0, FALSE),
       Profile(RoomA12, {"X", "Y"}, <<"c2", "c1">>, <<>>, {"i1"}, 0, FALSE)},
      {Profile(Room210, {}, <<>>, <<>>, {"i1"}, 0, FALSE),
       Profile(Room210, {}, <<>>, <<>>, {}, 0, FALSE)}>>

EnterIntroResident ==
    /\ calls = 0
    /\ out.op = "none"
    /\ Len(residents) < MaxIntro
    /\ \E p \in IntroFloor[(Len(residents) % Len(IntroFloor)) + 1] : AddResident(p)

InitIntros == InitEmpty /\ build = "stable"

NextIntros ==
    \/ EnterIntroResident
    \/ \E min_strength \in {DefaultMinStrength, 20} :
          calls = 0 /\ ComputeConnections(min_strength)
    \/ ComputeBoundaryScores
    \/ Compute("X", "Y")

SpecIntros == InitIntros /\ [][NextIntros]_vars

\* the members, in member order, that are not m, are not in the
\* isolation-risk list and share a class or an interest with m
PartnersOutsideRisk(isolated, m) ==
    {i \in DOMAIN residents :
        /\ residents[i].id # m
        /\ residents[i].id \notin Range(isolated)
        /\ \/ shares_class(residents[m + 1], residents[i])
           \/ shares_interest(residents[m + 1], residents[i])}

\* one pair for each member of the list that has such a partner: the first
RECURSIVE FirstPartnerPairs(_, _)
FirstPartnerPairs(isolated, k) ==
    IF k > Len(isolated)
    THEN <<>>
    ELSE LET found == PartnersOutsideRisk(isolated, isolated[k])
             first == CHOOSE i \in found : \A j \in found : i <= j
         IN  (IF found = {} THEN <<>> ELSE <<<<isolated[k], residents[first].id>>>>)
                 \o FirstPartnerPairs(isolated, k + 1)

\* C23: for every member m of the isolation-risk list (boundary score >= 0.7)
\* the introductions hold exactly one pair (m, p), p the first member in
\* member order that is not m, is not in the isolation-risk list and shares a
\* class or an interest with m, and no pair for m when there is no such p;
\* the pairs for the holes follow.
C23_FirstPartnerOutsideRisk ==
    out.op = "compute" =>
        out.result.suggested_introductions =
            FirstPartnerPairs(out.result.isolation_risk, 1)
                \o hole_intros(G, out.result.holes, 1)

\* what does hold: the partner is the first with boundary score <= 0.5
PartnerOfLowBoundary ==
    out.op = "compute" =>
        \A m \in Range(out.result.isolation_risk) :
            LET found == {i \in PartnersOutsideRisk(<<>>, m) :
                             ~FracLess(<<1, 2>>, residents[i].boundary_score)}
                pairs == {k \in DOMAIN out.result.suggested_introductions :
                             /\ k <= Len(out.result.isolation_risk)
                             /\ out.result.suggested_introductions[k][1] = m}
            IN  IF found = {}
                THEN \A k \in pairs :
                        out.result.suggested_introductions[k] \in
                            Range(hole_intros(G, out.result.holes, 1))
                ELSE \E k \in pairs :
                        out.result.suggested_introductions[k] =
                            <<m, residents[CHOOSE i \in found : \A j \in found : i <= j].id>>

\* a member of the list is left without a pair although a member outside the
\* list shares an interest with it
SkippedPartner ==
    /\ out.op = "compute"
    /\ \E m \in Range(out.result.isolation_risk) :
          /\ PartnersOutsideRisk(out.result.isolation_risk, m) # {}
          /\ \A k \in DOMAIN out.result.suggested_introductions :
                out.result.suggested_introductions[k][1] # m

\* C24: after analyze every member's four derived fields are recomputed from
\* the current connections: centrality, boundary_score and is_bridge are
\* those of compute_boundary_scores and compute_bridges, and component_id
\* names the connected component, equal for two members exactly when a path
\* of connections joins them.
C24_DerivedFieldsRecomputed ==
    out.op = "analyze" =>
        /\ residents = compute_bridges(compute_boundary_scores(G)).residents
        /\ \A i, j \in DOMAIN residents :
              (residents[i].component_id = residents[j].component_id)
                  <=> (residents[j].id \in ComponentOf(G, residents[i].id))

\* what does hold: three fields are recomputed and component_id keeps the
\* value the member was added with
ThreeFieldsRecomputed ==
    out.op = "analyze" =>
        /\ residents = compute_bridges(compute_boundary_scores(G)).residents
        /\ \A i \in DOMAIN residents : residents[i].component_id = -1

\* two members that no path joins carry the same component_id
SameIdAcrossComponents ==
    /\ out.op = "analyze"
    /\ \E i, j \in DOMAIN residents :
          /\ residents[j].id \notin ComponentOf(G, residents[i].id)
          /\ residents[i].component_id = residents[j].component_id

\* the strength of the pair with the free blocks of r1 taken away: every
\* signal but the overlap of free time
StrengthWithoutOverlap(r1, r2) ==
    pair_signals([r1 EXCEPT !.free_blocks = <<>>], r2).total_strength

\* C25: the free-time-overlap signal adds min(h, 2.0) to the strength of a
\* pair, h the total overlap in whole hours, when h >= 2, and adds nothing
\* and is no fired signal when h < 2.
C25_OverlapAddsHoursCapped ==
    out.op = "compute_connections" =>
        \A k \in DOMAIN connections :
            LET r1 == residents[connections[k].source + 1]
                r2 == residents[connections[k].target + 1]
                h == compute_schedule_overlap(r1, r2)
            IN  connections[k].strength - StrengthWithoutOverlap(r1, r2)
                    = IF h >= 2 THEN Min2(10 * h, 20) ELSE 0

\* what does hold: the signal adds min(h / 5, 2.0)
OverlapAddsFifthOfHours ==
    out.op = "compute_connections" =>
        \A k \in DOMAIN connections :
            LET r1 == residents[connections[k].source + 1]
                r2 == residents[connections[k].target + 1]
                h == compute_schedule_overlap(r1, r2)
            IN  /\ connections[k].strength - StrengthWithoutOverlap(r1, r2)
                      = IF h >= 2 THEN Min2(2 * h, 20) ELSE 0
                /\ h < 2 => pair_signals(r1, r2).types
                               = pair_signals([r1 EXCEPT !.free_blocks = <<>>], r2).types

(***************************************************************************)
(* Two analyze runs on two CommunityGraph instances, interleaved stage by  *)
(* stage.  The graph variables hold the members of the first instance as   *)
(* entered; out holds the two runs, each with its own graph, the stage it  *)
(* is at and the CommunityAnalysis it has filled so far.                   *)
(***************************************************************************)
MaxTwin == 2

Stages == 7

TwinProfiles ==
    {Profile(Room101, {"X"}, <<"c1">>, <<Mon9to12>>, {}, 0, FALSE),
     Profile(Room210, {"X", "Y"}, <<"c1", "c2">>, <<Mon10to12>>, {"i1"}, 2, TRUE)}

\* the floors of the second instance
TwinFloors ==
    {<<Profile(Room101, {"X"}, <<"c1">>, <<Mon9to12>>, {}, 0, FALSE),
       Profile(Room101, {"Y"}, <<>>, <<Mon9to12>>, {"i1"}, 0, FALSE)>>,
     <<Profile(Room330, {"Y"}, <<"c2">>, <<>>, {}, 4, FALSE),
       Profile(Room101, {"X"}, <<"c1">>, <<Mon9to12>>, {}, 0, FALSE),
       Profile(Room210, {"X", "Y"}, <<"c1", "c2">>, <<Mon10to12>>, {"i1"}, 2, TRUE)>>}

\* the instance add_resident builds from the first k profiles of a floor
RECURSIVE instance_of(_, _)
instance_of(floor, k) ==
    IF k = 0
    THEN Graph(<<>>, <<>>, EmptyMap, EmptyMap, {}, EmptyMap)
    ELSE add_resident(instance_of(floor, k - 1), Resident(k - 1, floor[k]))

\* `CommunityAnalysis result;` before any stage has written to it
NewAnalysis ==
    [homology |-> <<>>, persistence |-> <<>>, optimal_event_times |-> <<>>,
     prioritized_checkins |-> <<>>, health_score |-> <<>>, isolation_count |-> <<>>,
     bridge_count |-> <<>>, hole_count |-> <<>>]

NewRun(g) == [raw |-> g, g |-> g, stage |-> 1, analysis |-> NewAnalysis, overlapped |-> FALSE]

\* one stage of analyze on the run's own graph; compute_connections, which
\* the first stage and compute_full call, numbers the connections from
\* first_edge_id
analyze_stage(self, junk, ties, first_edge_id) ==
    LET renumber(g) ==
            [g EXCEPT !.connections =
                [k \in DOMAIN g.connections |->
                    [g.connections[k] EXCEPT !.id = @ + first_edge_id]]]
        homology(full) ==
            [self EXCEPT !.g = renumber(full.g), !.analysis.homology = full.r, !.stage = 5]
        summary(a) ==
            [a EXCEPT !.prioritized_checkins =
                          compute_priority_order(self.g, a.homology, a.persistence, ties),
                      !.health_score = a.homology.community_health,
                      !.isolation_count = Len(a.homology.isolation_risk),
                      !.bridge_count = Len(a.homology.bridge_residents),
                      !.hole_count = Len(a.homology.holes)]
    IN  CASE self.stage = 1 ->
                [self EXCEPT !.g = renumber(compute_connections(self.g, DefaultMinStrength)),
                             !.stage = 2]
          [] self.stage = 2 ->
                [self EXCEPT !.g = compute_boundary_scores(self.g), !.stage = 3]
          [] self.stage = 3 ->
                [self EXCEPT !.g = compute_bridges(self.g), !.stage = 4]
          [] self.stage = 4 ->
                Bind(compute_full(self.g, junk, ties), homology)
          [] self.stage = 5 ->
                [self EXCEPT !.analysis.persistence = persistent_homology(self.g, ties),
                             !.stage = 6]
          [] self.stage = 6 ->
                [self EXCEPT !.analysis.optimal_event_times =
                                 find_optimal_event_times(self.g, DefaultTopN, ties),
                             !.stage = 7]
          [] OTHER ->
                [self EXCEPT !.analysis = summary(self.analysis), !.stage = 8]

\* the stage with an edge-id counter that both instances draw from
run_stage_shared_edge_id(self, other, junk, ties) ==
    analyze_stage(self, junk, ties, Len(other.g.connections))

\* the stage of one run while the other instance is in the state `other`:
\* edge_id is a local of compute_connections (line 256), the caches and the
\* union-find arrays are members or locals, and nothing of `other` is read
run_stage(self, other, junk, ties) ==
    analyze_stage(self, junk, ties, 0)

InFlight(run) == run.stage \in 2..Stages

\* both analyze calls are made, none has run a stage yet
Fork ==
    /\ out.op = "none"
    /\ \E floor \in TwinFloors :
          out' = [op |-> "analyze_twice",
                  first |-> NewRun(G),
                  second |-> NewRun(instance_of(floor, Len(floor)))]
    /\ UNCHANGED <<residents, connections, adj, adj_weighted, subcommunity_labels,
                   subcommunity_members, build, calls, prev>>

StageOfFirst ==
    /\ out.op = "analyze_twice"
    /\ out.first.stage <= Stages
    /\ \E junk \in Indeterminate :
          out' = [out EXCEPT
                    !.first = [run_stage(out.first, out.second, junk, build)
                                  EXCEPT !.overlapped = @ \/ InFlight(out.second)]]
    /\ UNCHANGED <<residents, connections, adj, adj_weighted, subcommunity_labels,
                   subcommunity_members, build, calls, prev>>

StageOfSecond ==
    /\ out.op = "analyze_twice"
    /\ out.second.stage <= Stages
    /\ \E junk \in Indeterminate :
          out' = [out EXCEPT
                    !.second = [run_stage(out.second, out.first, junk, build)
                                   EXCEPT !.overlapped = @ \/ InFlight(out.first)]]
    /\ UNCHANGED <<residents, connections, adj, adj_weighted, subcommunity_labels,
                   subcommunity_members, build, calls, prev>>

EnterTwinResident ==
    /\ out.op = "none"
    /\ Len(residents) < MaxTwin
    /\ \E p \in TwinProfiles : AddResident(p)

InitTwin == InitEmpty /\ build \in Builds

NextTwin ==
    \/ EnterTwinResident
    \/ Fork
    \/ StageOfFirst
    \/ StageOfSecond

SpecTwin == InitTwin /\ [][NextTwin]_vars

\* what analyze returns, and the graph it leaves, when it runs alone on the
\* instance as entered; a number the Result never assigns is indeterminate
AloneOutcomes(raw) ==
    {analyze(raw, junk, build) : junk \in Indeterminate}

HasReturned(run) == run.stage > Stages

C27_CyclesAreH1SimpleCycles ==
    out.op = "find_cycles" =>
        /\ Len(out.cycles) = h1(G)
        /\ \A m \in DOMAIN out.cycles :
              LET cycle == out.cycles[m]
                  n == Len(cycle)
              IN  /\ n >= 3
                  /\ \A i, j \in 1..n : i # j => cycle[i] # cycle[j]
                  /\ \A i \in 1..n :
                        Linked(connections, cycle[i], cycle[(i % n) + 1])

\* several cycles came back, one of them through four members
C27_Witness ==
    /\ out.op = "find_cycles"
    /\ Len(out.cycles) >= 2
    /\ \E m \in DOMAIN out.cycles : Len(out.cycles[m]) = 4

(***************************************************************************)
(* compute_full on a floor of five: a member of room 101 with two classes  *)
(* and an interest, a member next door or far off, two classmates, and a   *)
(* member who shares at most the interest; each position has a variant.    *)
(***************************************************************************)
FullFloor ==
    <<{Profile(Room101, {"X"}, <<"c1", "c2">>, <<>>, {"i1"}, 0, FALSE),
       Profile(Room101, {"X"}, <<"c1", "c2">>, <<>>, {}, 0, FALSE)},
      {Profile(Room104, {"X"}, <<>>, <<>>, {}, 0, FALSE),
       Profile(Room101, {"X"}, <<"c1">>, <<>>, {}, 0, FALSE)},
      {Profile(Room330, {"Y"}, <<"c1">>, <<>>, {}, 0, FALSE),
       Profile(Room330, {"Y"}, <<"c1", "c2">>, <<>>, {}, 0, FALSE)},
      {Profile(RoomA12, {"X", "Y"}, <<"c2">>, <<>>, {}, 0, FALSE),
       Profile(Room101, {"X", "Y"}, <<"c2">>, <<>>, {}, 0, FALSE)},
      {Profile(Room210, {}, <<>>, <<>>, {"i1"}, 0, FALSE),
       Profile(Room210, {}, <<>>, <<>>, {}, 0, FALSE)}>>

EnterFullResident ==
    /\ calls = 0
    /\ out.op = "none"
    /\ Len(residents) < MaxIntro
    /\ \E p \in FullFloor[(Len(residents) % Len(FullFloor)) + 1] : AddResident(p)

InitFull == InitEmpty /\ build \in FloatBuilds

NextFull ==
    \/ EnterFullResident
    \/ calls = 0 /\ ComputeFull

SpecFull == InitFull /\ [][NextFull]_vars

Introduced == {out.result.suggested_introductions[k] :
                   k \in DOMAIN out.result.suggested_introductions}

\* C28: every pair compute_full suggests for an introduction is already
\* joined by a connection, so a member with no connection is in no pair.
C28_IntroducedAlreadyConnected ==
    out.op = "compute_full" =>
        /\ \A pair \in Introduced : Linked(connections, pair[1], pair[2])
        /\ \A i \in DOMAIN residents :
              Incident(residents[i].id) = 0 =>
                  \A pair \in Introduced :
                      residents[i].id # pair[1] /\ residents[i].id # pair[2]

\* a member at isolation risk is paired with a member it shares an interest
\* with and no class
C28_Witness ==
    /\ out.op = "compute_full"
    /\ \E pair \in Introduced :
          /\ pair[1] \in Range(out.result.isolation_risk)
          /\ ~shares_class(residents[pair[1] + 1], residents[pair[2] + 1])

\* a member with no connection is at isolation risk
UnconnectedAtRisk ==
    /\ out.op = "compute_full"
    /\ \E i \in DOMAIN residents :
          /\ Incident(residents[i].id) = 0
          /\ residents[i].id \in Range(out.result.isolation_risk)
          /\ Len(residents) > 1

\* a pair is suggested for a hole
HolePairSuggested ==
    /\ out.op = "compute_full"
    /\ hole_intros(G, out.result.holes, 1) # <<>>

(***************************************************************************)
(* The decomposition on a floor of four: two members of both subgroups,    *)
(* one of X and one of Y; each position has a variant.                     *)
(***************************************************************************)
SymFloor ==
    <<{Profile(Room101, {"X", "Y"}, <<"c1">>, <<>>, {}, 0, FALSE),
       Profile(Room101, {"X"}, <<"c1">>, <<>>, {}, 0, FALSE)},
      {Profile(Room330, {"X", "Y"}, <<"c2">>, <<>>, {}, 0, FALSE),
       Profile(Room330, {"X", "Y"}, <<"c1", "c2">>, <<>>, {}, 0, FALSE)},
      {Profile(RoomA12, {"X"}, <<"c1", "c2">>, <<>>, {}, 0, FALSE),
       Profile(RoomA12, {"X"}, <<"c1">>, <<>>, {}, 0, FALSE)},
      {Profile(Room210, {"Y"}, <<"c1", "c2">>, <<>>, {}, 0, FALSE),
       Profile(Room210, {"Y"}, <<>>, <<>>, {}, 0, FALSE)}>>

EnterSymResident ==
    /\ calls = 0
    /\ out.op = "none"
    /\ Len(residents) < MaxV
    /\ \E p \in SymFloor[(Len(residents) % Len(SymFloor)) + 1] : AddResident(p)

InitSym == InitEmpty /\ build = "stable"

NextSym ==
    \/ EnterSymResident
    \/ calls = 0 /\ ComputeConnections(DefaultMinStrength)
    \/ ComputeBoundaryScores
    \/ ComputeBridges
    \/ \E subA, subB \in Labels : Compute(subA, subB)

SpecSym == InitSym /\ [][NextSym]_vars

\* C29: compute(G, A, B) and compute(G, B, A) give the same h0_intersection,
\* h1_intersection, kernel_i0, cokernel_i1, h1_union and community_health,
\* with (h0_A, h1_A) and (h0_B, h1_B) swapped, and kernel_i0 >= 0 and
\* 0 <= cokernel_i1 <= h1_A + h1_B.
C29_SymmetricInLabels ==
    out.op = "compute" =>
        LET r == out.result
            s == mv_compute(G, out.subB, out.subA)
        IN  /\ r.h0_intersection = s.h0_intersection
            /\ r.h1_intersection = s.h1_intersection
            /\ r.kernel_i0 = s.kernel_i0
            /\ r.cokernel_i1 = s.cokernel_i1
            /\ r.h1_union = s.h1_union
            /\ r.community_health = s.community_health
            /\ <<r.h0_A, r.h1_A>> = <<s.h0_B, s.h1_B>>
            /\ <<r.h0_B, r.h1_B>> = <<s.h0_A, s.h1_A>>
            /\ r.kernel_i0 >= 0
            /\ 0 <= r.cokernel_i1
            /\ r.cokernel_i1 <= r.h1_A + r.h1_B

\* two different subgroups, and components of the intersection that merge
C29_Witness ==
    /\ out.op = "compute"
    /\ out.subA # out.subB
    /\ out.result.h0_intersection > 1
    /\ out.result.kernel_i0 > 0

\* a cycle in one subgroup and none in the other
CycleInOneSubgroup ==
    /\ out.op = "compute"
    /\ out.result.h1_A > 0
    /\ out.result.h1_B = 0
    /\ out.result.cokernel_i1 > 0

(***************************************************************************)
(* Edge synthesis with a min_strength at and above the roommate strength.  *)
(***************************************************************************)
RoommateStrength == 50

NextRooms ==
    \/ EnterResident
    \/ \E m \in {DefaultMinStrength, RoommateStrength, RoommateStrength + 10} :
          ComputeConnections(m)

SpecRooms == InitConnections /\ [][NextRooms]_vars

SameRoom(i, j) == residents[i].room = residents[j].room

\* C30: after compute_connections with min_strength <= 5.0, two members
\* with the same room string, the empty string of an unset room included,
\* have a connection of strength >= 5.0 and the roommate signal fired; a
\* floor on which no member has a room is a complete graph.
C30_SameRoomConnected ==
    (out.op = "compute_connections" /\ out.min_strength <= RoommateStrength) =>
        /\ \A i, j \in DOMAIN residents :
              (i < j /\ SameRoom(i, j)) =>
                  /\ \E k \in DOMAIN connections :
                        /\ connections[k].source = residents[i].id
                        /\ connections[k].target = residents[j].id
                        /\ connections[k].strength >= RoommateStrength
                  /\ "ROOMMATE" \in Range(pair_signals(residents[i], residents[j]).types)
        /\ (\A i \in DOMAIN residents : residents[i].room = NoRoom) =>
              Len(connections) = (Len(residents) * (Len(residents) - 1)) \div 2

\* three members without a room, min_strength exactly 5.0: three connections
\* of strength exactly 5.0
C30_Witness ==
    /\ out.op = "compute_connections"
    /\ out.min_strength = RoommateStrength
    /\ Len(residents) = 3
    /\ \A i \in DOMAIN residents : residents[i].room = NoRoom
    /\ Len(connections) = 3
    /\ \A k \in DOMAIN connections : connections[k].strength = RoommateStrength

\* above 5.0 two members of one room can be left without a connection
RoommatesBelowThreshold ==
    /\ out.op = "compute_connections"
    /\ \E i, j \in DOMAIN residents :
          /\ i < j
          /\ SameRoom(i, j)
          /\ ~Linked(connections, residents[i].id, residents[j].id)

====
